---- MODULE Spec2Model ----
(***************************************************************************)
(* VANET routing and trust core: the hash-chained ledger (blockchain.py),  *)
(* the per-RSU anomaly detector (rsu.py) and the routing strategies        *)
(* (algorithms/tmr.py, algorithms/gytar.py).                               *)
(***************************************************************************)
EXTENDS Integers, Sequences, FiniteSets, TLC

(* ---------------------------- config.py -------------------------------- *)
NETWORK_LENGTH == 3000
NETWORK_WIDTH == 3000
VEHICLE_MIN_VELOCITY == 60
VEHICLE_MAX_VELOCITY == 100
MAX_VEHICLES == 101
MAX_V2V_RANGE == 300

(* ------------------------------ bounds --------------------------------- *)
\* time.time() is read in whole seconds from 0 to MaxTime
MaxTime == 3
\* the ledger holds at most MaxChain blocks, the genesis block included
MaxChain == 3
\* a neighbor map holds at most MaxSnapshots vehicle snapshots
MaxSnapshots == 2
\* the model keeps the first MaxRoute waypoints of the route GyTARRouter.find_route
\* is building
MaxRoute == 8

\* the clock of the RSUs that go on receiving the beacons of a marked vehicle
\* runs to MaxLate
MaxLate == 5

\* the entries a caller stores beyond the limit of a route cache before the
\* traffic-update hook fires
MaxOver == 2

RSUs == {"RSU_0", "RSU_1"}
VehicleIds == {"V_0", "V_1"}

VARIABLES
    now,                 \* the value time.time() returns
    chain,               \* Blockchain.chain
    malicious_vehicles,  \* Blockchain.malicious_vehicles
    connected_vehicles,  \* RSU.connected_vehicles, per RSU
    suspicious_count,    \* RSU.suspicious_count, per RSU
    traffic_data,        \* RSU.traffic_data, per RSU
    pc,                  \* where each RSU thread stands in its code
    frame,               \* the local variables of each RSU thread
    tmr_pc,              \* where TMRRouter.find_route stands
    tmr_route_cache,     \* TMRRouter.route_cache
    tmr_call,            \* the arguments of the running TMRRouter.find_route
    tmr_current_pos,     \* its local current_pos
    tmr_route,           \* its local route, and the list it returns
    gy_pc,               \* where GyTARRouter.find_route stands
    gy_route_cache,      \* GyTARRouter.route_cache
    gy_call,             \* the arguments of the running GyTARRouter.find_route
    gy_current_pos,      \* its local current_pos
    gy_route,            \* its local route, and the list it returns
    gy_junction,         \* its local next_junction
    gy_current,          \* the local current of _find_path_to_junction
    gy_path,             \* the local path of _find_path_to_junction
    aodv_pc,             \* where AODVRouter.find_route stands
    aodv_route_cache,    \* AODVRouter.route_cache
    aodv_rreq_buffer,    \* AODVRouter.rreq_buffer
    aodv_last_cleanup,   \* AODVRouter.last_cleanup
    aodv_call,           \* the arguments of the running AODVRouter.find_route
    aodv_queue,          \* the local queue of _discover_route
    aodv_visited,        \* its local visited
    aodv_discovered,     \* its local discovered_routes, in insertion order
    aodv_route           \* the list find_route returns

ledgerVars == <<chain, malicious_vehicles>>
rsuVars == <<connected_vehicles, suspicious_count, traffic_data>>
threadVars == <<pc, frame>>
tmrVars == <<tmr_pc, tmr_route_cache, tmr_call, tmr_current_pos, tmr_route>>
gyVars == <<gy_pc, gy_route_cache, gy_call, gy_current_pos, gy_route, gy_junction,
            gy_current, gy_path>>
aodvVars == <<aodv_pc, aodv_route_cache, aodv_rreq_buffer, aodv_last_cleanup, aodv_call,
              aodv_queue, aodv_visited, aodv_discovered, aodv_route>>
vars == <<now, ledgerVars, rsuVars, threadVars, tmrVars, gyVars, aodvVars>>

(* --------------------------- arithmetic -------------------------------- *)
Abs(n) == IF n < 0 THEN -n ELSE n

RECURSIVE GCD(_, _)
GCD(a, b) == IF b = 0 THEN a ELSE GCD(b, a % b)

\* a float that is a quotient of integers, kept exact as a reduced fraction
Rat(n, d) ==
    LET g == GCD(Abs(n), Abs(d))
        s == IF d < 0 THEN -1 ELSE 1
    IN [num |-> (s * n) \div g, den |-> (s * d) \div g]

RatAdd(a, b) == Rat(a.num * b.den + b.num * a.den, a.den * b.den)
RatLeq(a, b) == a.num * b.den <= b.num * a.den
RatMin(a, b) == IF RatLeq(a, b) THEN a ELSE b

\* the integer square root of n by bisection of lo..hi; l and h are the values
\* of the two ends of the interval at this step
RECURSIVE SqrtSearch(_, _, _)
SqrtSearch(n, lo, hi) ==
    CHOOSE r \in {IF l >= h THEN l
                  ELSE LET mid == (l + h + 1) \div 2
                       IN IF mid * mid <= n THEN SqrtSearch(n, mid, h)
                          ELSE SqrtSearch(n, l, mid - 1)
                  : l \in {lo}, h \in {hi}} : TRUE

\* math.sqrt of a whole number: exact on the perfect squares, rounded down
\* elsewhere
Sqrt(n) == SqrtSearch(n, 0, 6000)

Loc(x, y) == [x |-> x, y |-> y]

\* the value None
None == [none |-> TRUE]

\* (p1.x - p2.x)**2 + (p1.y - p2.y)**2
DistanceSq(point1, point2) ==
    (point1.x - point2.x) * (point1.x - point2.x)
    + (point1.y - point2.y) * (point1.y - point2.y)

\* math.sqrt((p1.x - p2.x)**2 + (p1.y - p2.y)**2); between two points of one
\* horizontal line it is the difference of their x
Distance(point1, point2) ==
    IF point1.y = point2.y THEN Abs(point1.x - point2.x)
    ELSE Sqrt(DistanceSq(point1, point2))

\* the loops `for item in items: ... if score > best_score: best = item`, scores
\* holding the score of each item: the first item of the greatest score, None
\* when there is no item; its and sc are the values of items and scores
FirstBest(items, scores) ==
    CHOOSE best \in
        {IF its = <<>> THEN None
         ELSE its[CHOOSE i \in 1..Len(its) :
                     /\ \A j \in 1..Len(its) : sc[j] <= sc[i]
                     /\ \A j \in 1..(i - 1) : sc[j] < sc[i]]
         : its \in {items}, sc \in {scores}} : TRUE

RECURSIVE SumOver(_, _)
SumOver(S, f) ==
    IF S = {} THEN 0
    ELSE LET e == CHOOSE e \in S : TRUE IN f[e] + SumOver(S \ {e}, f)

(* --------------------------- blockchain.py ----------------------------- *)
\* hashlib.sha256(text).hexdigest(): a digest is determined by the text digested,
\* and distinct texts have distinct digests
Digest(content) == <<content>>

\* the previous_hash "0" of the genesis block, which is no digest
RootHash == <<>>

\* what json.dumps writes for a block's data: a payload that holds an RSU's
\* traffic_data holds the dict object itself, read when the text is written
Serialize(data, td) ==
    IF "traffic_data" \in DOMAIN data
    THEN [data EXCEPT !.traffic_data = td[data.traffic_data.ref]]
    ELSE data

\* Block.calculate_hash: the digest of self.__dict__, every attribute the block
\* has when it is called
calculate_hash(self, td) == Digest([self EXCEPT !.data = Serialize(self.data, td)])

\* Block.__init__: the hash is computed before the attribute hash exists
Block(index, timestamp, data, previous_hash, td) ==
    LET self == [index |-> index, timestamp |-> timestamp, data |-> data,
                 previous_hash |-> previous_hash]
    IN self @@ [hash |-> calculate_hash(self, td)]

create_genesis_block(t, td) == Block(0, t, [message |-> "Genesis Block"], RootHash, td)

get_latest_block(ch) == ch[Len(ch)]

\* Blockchain.add_block, from the latest block read to the append
new_block(previous_block, data, t, td) ==
    Block(previous_block.index + 1, t, data, previous_block.hash, td)

\* the new block stored in the place of the latest block
add_block_Replace(ch, data, t, td) ==
    [ch EXCEPT ![Len(ch)] = new_block(get_latest_block(ch), data, t, td)]

add_block(ch, data, t, td) == Append(ch, new_block(get_latest_block(ch), data, t, td))

\* Blockchain.is_chain_valid; block i of the code is ch[i + 1]
BlockValid(ch, i, td) ==
    /\ ch[i + 1].hash = calculate_hash(ch[i + 1], td)
    /\ ch[i + 1].previous_hash = ch[i].hash

is_chain_valid(ch, td) == \A i \in 1..(Len(ch) - 1) : BlockValid(ch, i, td)

\* the iteration i at which is_chain_valid returns False, -1 when it returns True
FailingIteration(ch, td) ==
    IF is_chain_valid(ch, td) THEN -1
    ELSE CHOOSE i \in 1..(Len(ch) - 1) :
            /\ ~BlockValid(ch, i, td)
            /\ \A j \in 1..(i - 1) : BlockValid(ch, j, td)

MaliciousPayload(vehicle_id, t) ==
    [type |-> "malicious_vehicle", vehicle_id |-> vehicle_id, timestamp |-> t]

VehiclePayload(vehicle_id, location, speed, direction, message, t) ==
    [type |-> "vehicle_data", vehicle_id |-> vehicle_id, location |-> location,
     speed |-> speed, direction |-> direction, message |-> message, timestamp |-> t]

\* the payload holds the list of ids it is given and the traffic_data object
\* of RSU rsu_id
RsuPayload(rsu_id, connected, t) ==
    [type |-> "rsu_data", rsu_id |-> rsu_id, connected_vehicles |-> connected,
     traffic_data |-> [ref |-> rsu_id], timestamp |-> t]

\* the set assigned instead of added to
add_malicious_vehicle_Assign(vehicle_id) ==
    /\ malicious_vehicles' = {vehicle_id}
    /\ chain' = add_block(chain, MaliciousPayload(vehicle_id, now), now, traffic_data')

\* Blockchain.add_malicious_vehicle
add_malicious_vehicle(vehicle_id) ==
    /\ malicious_vehicles' = malicious_vehicles \cup {vehicle_id}
    /\ chain' = add_block(chain, MaliciousPayload(vehicle_id, now), now, traffic_data')

\* Blockchain.record_vehicle_data
record_vehicle_data(vehicle_id, location, speed, direction, message) ==
    /\ chain' = add_block(chain,
                          VehiclePayload(vehicle_id, location, speed, direction, message, now),
                          now, traffic_data')
    /\ UNCHANGED malicious_vehicles

\* Blockchain.record_rsu_data
record_rsu_data(rsu_id, connected) ==
    /\ chain' = add_block(chain, RsuPayload(rsu_id, connected, now), now, traffic_data')
    /\ UNCHANGED malicious_vehicles

\* Blockchain.get_malicious_vehicles
get_malicious_vehicles == malicious_vehicles

\* the vehicle ids of the malicious-marking blocks of a chain
MarkedIn(ch) ==
    {ch[i].data.vehicle_id : i \in {j \in 1..Len(ch) :
        /\ "type" \in DOMAIN ch[j].data
        /\ ch[j].data.type = "malicious_vehicle"}}

\* the number of malicious-marking blocks of a chain for a vehicle
MarkingBlocks(ch, vehicle_id) ==
    Cardinality({j \in 1..Len(ch) :
        /\ "type" \in DOMAIN ch[j].data
        /\ ch[j].data.type = "malicious_vehicle"
        /\ ch[j].data.vehicle_id = vehicle_id})

(* ------------------------------- rsu.py -------------------------------- *)
\* the range_limit default of RSU._get_nearby_vehicles
NEARBY_RANGE == 300
\* a vehicle marked one event early
SUSPICION_LIMIT_Early == 3 - 1

\* the number of suspicious events at which a vehicle is marked
SUSPICION_LIMIT == 3

\* the beacons a vehicle can send to an RSU: its location, its speed and,
\* when the message carries one, its sees_accident flag
Beacons ==
    { [location |-> Loc(0, 0), speed |-> 80, sees_accident |-> FALSE],
      [location |-> Loc(0, 0), speed |-> 80, sees_accident |-> TRUE],
      [location |-> Loc(0, 0), speed |-> 160],
      [location |-> Loc(1000, 0), speed |-> 80],
      [location |-> Loc(0 - 50, 0), speed |-> 80] }

\* V_1 reports what it sees; V_0 may send any of the beacons
BeaconsOf(vehicle_id) ==
    IF vehicle_id = "V_0" THEN Beacons
    ELSE { [location |-> Loc(0, 0), speed |-> 80, sees_accident |-> FALSE],
           [location |-> Loc(0, 0), speed |-> 160] }

InitialTraffic ==
    [vehicle_count |-> 0, average_speed |-> Rat(0, 1), congestion_level |-> Rat(0, 1)]

\* dict.get(vehicle_id, 0)
CountOf(counts, vehicle_id) == IF vehicle_id \in DOMAIN counts THEN counts[vehicle_id] ELSE 0

\* d[key] = value and del d[key] on a dict
DictPut(d, key, value) == (key :> value) @@ d
DictDel(d, key) == [k \in DOMAIN d \ {key} |-> d[k]]

\* the stored snapshots in range, those of marked vehicles included
get_nearby_vehicles_Marked(conn, malicious, location) ==
    {vid \in DOMAIN conn : Distance(location, conn[vid].location) <= NEARBY_RANGE}

\* RSU._get_nearby_vehicles: the ids of the stored snapshots in range
get_nearby_vehicles(conn, malicious, location) ==
    {vid \in DOMAIN conn :
        /\ vid \notin malicious
        /\ Distance(location, conn[vid].location) <= NEARBY_RANGE}

\* a check that flags the bound itself
ImpossibleSpeed_OrEqual(data) == 2 * data.speed >= 3 * VEHICLE_MAX_VELOCITY

\* check 1, rsu.py line 108: speed > VEHICLE_MAX_VELOCITY * 1.5
ImpossibleSpeed(data) == 2 * data.speed > 3 * VEHICLE_MAX_VELOCITY

\* the bound without its tolerance of 1.2
ImpossibleMovement_NoTolerance(data, prev_data, time_diff) ==
    36000 * Distance(data.location, prev_data.location)
        > prev_data.speed * 1000 * time_diff * 10

\* check 2, lines 113-118: actual_distance > (speed * 1000 / 3600) * time_diff * 1.2,
\* both sides times 36000
ImpossibleMovement(data, prev_data, time_diff) ==
    36000 * Distance(data.location, prev_data.location)
        > prev_data.speed * 1000 * time_diff * 12

\* a fence without its margin of 10 m
OutsideBounds_NoMargin(data) ==
    \/ data.location.x < 0
    \/ data.location.x > NETWORK_LENGTH
    \/ data.location.y < 0
    \/ data.location.y > NETWORK_WIDTH

\* check 3, lines 123-124
OutsideBounds(data) ==
    \/ data.location.x < 0 - 10
    \/ data.location.x > NETWORK_LENGTH + 10
    \/ data.location.y < 0 - 10
    \/ data.location.y > NETWORK_WIDTH + 10

\* lines 130-134: the ids whose stored report is counted
NearbyReporters(conn, malicious, data, current_time) ==
    {vid \in get_nearby_vehicles(conn, malicious, data.location) :
        /\ "sees_accident" \in DOMAIN conn[vid]
        /\ conn[vid].timestamp > current_time - 2}

\* check 4, lines 129-139
InconsistentReport(conn, malicious, data, current_time) ==
    /\ "sees_accident" \in DOMAIN data
    /\ LET reporters == NearbyReporters(conn, malicious, data, current_time)
           trues == {vid \in reporters : conn[vid].sees_accident}
           majority_report == 2 * Cardinality(trues) > Cardinality(reporters)
       IN /\ reporters # {}
          /\ data.sees_accident # majority_report

\* is_suspicious as the first check leaves it
IsSuspicious_FirstCheck(conn, malicious, data, prev_data, current_time) ==
    ImpossibleSpeed(data)

\* is_suspicious after the four checks of lines 104-143
IsSuspicious(conn, malicious, data, prev_data, current_time) ==
    \/ ImpossibleSpeed(data)
    \/ ImpossibleMovement(data, prev_data, current_time - prev_data.timestamp)
    \/ OutsideBounds(data)
    \/ InconsistentReport(conn, malicious, data, current_time)

\* the checks of lines 107-139 that fail for an update
FailingChecks(conn, malicious, data, prev_data, current_time) ==
    {check \in {"speed", "movement", "bounds", "consensus"} :
        \/ check = "speed" /\ ImpossibleSpeed(data)
        \/ check = "movement"
              /\ ImpossibleMovement(data, prev_data, current_time - prev_data.timestamp)
        \/ check = "bounds" /\ OutsideBounds(data)
        \/ check = "consensus" /\ InconsistentReport(conn, malicious, data, current_time)}

\* a detector that never rejects
Rejected_Never(vehicle_id) == FALSE

\* lines 94-96: the update is rejected before anything is evaluated
Rejected(vehicle_id) == vehicle_id \in get_malicious_vehicles

\* a marked vehicle that stays tracked
EvictMarked_Keep(conn, vehicle_id) == conn

\* lines 156-157: the vehicle leaves connected_vehicles when it is marked
EvictMarked(conn, vehicle_id) == DictDel(conn, vehicle_id)

\* lines 161-165: {**data, 'timestamp': current_time, 'port': addr[1]}, the port,
\* which nothing reads, left out
Stored(data, current_time) == [timestamp |-> current_time] @@ data

\* a detector that checks the speed and the fence of a first-seen update too
Flagged_FirstSeen(conn, malicious, vehicle_id, data, current_time) ==
    IF vehicle_id \in DOMAIN conn
    THEN /\ current_time - conn[vehicle_id].timestamp > 0
         /\ IsSuspicious(conn, malicious, data, conn[vehicle_id], current_time)
    ELSE ImpossibleSpeed(data) \/ OutsideBounds(data)

\* whether the update is evaluated and found suspicious (lines 98-145)
Flagged(conn, malicious, vehicle_id, data, current_time) ==
    /\ vehicle_id \in DOMAIN conn
    /\ current_time - conn[vehicle_id].timestamp > 0
    /\ IsSuspicious(conn, malicious, data, conn[vehicle_id], current_time)

\* RSU._calculate_congestion_level
calculate_congestion_level(vehicle_count, avg_speed) ==
    LET range == VEHICLE_MAX_VELOCITY - VEHICLE_MIN_VELOCITY
        speed_factor == Rat(range * avg_speed.den
                              - (avg_speed.num - VEHICLE_MIN_VELOCITY * avg_speed.den),
                            range * avg_speed.den)
        count_factor == RatMin(Rat(1, 1), Rat(2 * vehicle_count, MAX_VEHICLES))
        total == RatAdd(speed_factor, count_factor)
    IN Rat(total.num, 2 * total.den)

\* RSU._update_traffic_data: the traffic_data of the RSU after the call
update_traffic_data(conn, malicious, td, current_time) ==
    LET active == {vid \in DOMAIN conn :
                      /\ current_time - conn[vid].timestamp < 5
                      /\ vid \notin malicious}
        n == Cardinality(active)
        avg_speed == Rat(SumOver(active, [vid \in active |-> conn[vid].speed]), n)
    IN IF active # {}
       THEN [vehicle_count |-> n, average_speed |-> avg_speed,
             congestion_level |-> calculate_congestion_level(n, avg_speed)]
       ELSE td

(* --------------------------- algorithms/tmr.py ------------------------- *)
\* a key of the source alone
route_key_SourceOnly(source_location, destination_location) ==
    <<source_location.x, source_location.y>>

\* the f-string of find_route line 26, which two pairs of locations share only
\* when their four coordinates are equal
route_key(source_location, destination_location) ==
    <<source_location.x, source_location.y, destination_location.x, destination_location.y>>

\* the length above which TMRRouter.update_traffic clears the cache
TMR_CACHE_LIMIT == 100

\* TMRRouter.update_traffic: the route cache after the call
tmr_update_traffic(route_cache) ==
    IF Cardinality(DOMAIN route_cache) > TMR_CACHE_LIMIT THEN <<>> ELSE route_cache

\* traffic_data.get('congestion_level', 0), in tenths
CongestionOf(traffic) ==
    IF "congestion_level" \in DOMAIN traffic THEN traffic.congestion_level ELSE 0

\* a candidate at the same distance from the destination counts as progress
tmr_is_forward_progress_OrEqual(current, next_hop, destination) ==
    Distance(next_hop, destination) <= Distance(current, destination)

\* TMRRouter._is_forward_progress
tmr_is_forward_progress(current, next_hop, destination) ==
    Distance(next_hop, destination) < Distance(current, destination)

\* TMRRouter._calculate_hop_score, times 400:
\* 0.5 * progress + 0.3 * (speed - 60) / 40 + 0.2 * (1 - congestion)
tmr_calculate_hop_score(current, next_hop, destination, speed, congestion) ==
    LET progress == Distance(current, destination) - Distance(next_hop, destination)
    IN 200 * progress
       + (1200 * (speed - VEHICLE_MIN_VELOCITY))
            \div (VEHICLE_MAX_VELOCITY - VEHICLE_MIN_VELOCITY)
       + 8 * (10 - congestion)

\* TMRRouter._find_next_hop: a location, or None
tmr_find_next_hop(current_pos, destination, vehicles, traffic) ==
    LET Forward(vehicle_data) ==
            tmr_is_forward_progress(current_pos, vehicle_data.location, destination)
        candidates == SelectSeq(vehicles, Forward)
        best == FirstBest(candidates,
                    [i \in 1..Len(candidates) |->
                        tmr_calculate_hop_score(current_pos, candidates[i].location,
                            destination, candidates[i].speed, CongestionOf(traffic))])
    IN IF best = None THEN None ELSE best.location

(* -------------------------- algorithms/gytar.py ------------------------ *)
\* grid_size of GyTARRouter._get_potential_junctions
GRID_SIZE == 500

\* range(0, NETWORK_LENGTH, grid_size) and range(0, NETWORK_WIDTH, grid_size)
GridXs == [i \in 1..((NETWORK_LENGTH + GRID_SIZE - 1) \div GRID_SIZE) |-> (i - 1) * GRID_SIZE]
GridYs == [i \in 1..((NETWORK_WIDTH + GRID_SIZE - 1) \div GRID_SIZE) |-> (i - 1) * GRID_SIZE]

\* the junctions of the grid in the order of the two nested loops
Grid ==
    [k \in 1..(Len(GridXs) * Len(GridYs)) |->
        Loc(GridXs[((k - 1) \div Len(GridYs)) + 1], GridYs[((k - 1) % Len(GridYs)) + 1])]

\* every junction of the grid is a potential junction, in range or not
gy_get_potential_junctions_All(current_pos) == Grid

\* GyTARRouter._get_potential_junctions; math.sqrt(d) <= MAX_V2V_RANGE is
\* d <= MAX_V2V_RANGE ** 2
gy_get_potential_junctions(current_pos) ==
    LET InReach(junction) ==
            DistanceSq(current_pos, junction) <= MAX_V2V_RANGE * MAX_V2V_RANGE
    IN SelectSeq(Grid, InReach)

\* GyTARRouter._calculate_traffic_density, times 101: min(1, n / (MAX_VEHICLES * 0.1))
gy_calculate_traffic_density(junction, vehicles) ==
    LET vehicles_in_range ==
            Cardinality({i \in 1..Len(vehicles) :
                Distance(junction, vehicles[i].location) <= MAX_V2V_RANGE})
    IN IF 10 * vehicles_in_range < MAX_VEHICLES THEN 10 * vehicles_in_range
       ELSE MAX_VEHICLES

\* GyTARRouter._calculate_junction_score, times 50 * MAX_VEHICLES * current_to_dest:
\* 0.4 * (cd - jd) / cd + 0.4 * density + 0.2 * (1 - congestion)
gy_calculate_junction_score(current_pos, junction, destination, vehicles, traffic) ==
    LET current_to_dest == Distance(current_pos, destination)
        junction_to_dest == Distance(junction, destination)
    IN 20 * MAX_VEHICLES * (current_to_dest - junction_to_dest)
       + 20 * current_to_dest * gy_calculate_traffic_density(junction, vehicles)
       + MAX_VEHICLES * current_to_dest * (10 - CongestionOf(traffic))

\* GyTARRouter._find_next_junction: a junction, or None
gy_find_next_junction(current_pos, destination, vehicles, traffic) ==
    CHOOSE best_junction \in
        {FirstBest(junctions,
             [i \in 1..Len(junctions) |->
                 gy_calculate_junction_score(current_pos, junctions[i], destination,
                                             vehicles, traffic)])
         : junctions \in {gy_get_potential_junctions(current_pos)}} : TRUE

\* GyTARRouter._is_forward_progress
gy_is_forward_progress(current, next_hop, target) ==
    Distance(next_hop, target) < Distance(current, target)

\* GyTARRouter._calculate_vehicle_hop_score, times 400:
\* 0.7 * progress + 0.3 * (speed - 60) / 40
gy_calculate_vehicle_hop_score(current, next_hop, target, speed) ==
    LET progress == Distance(current, target) - Distance(next_hop, target)
    IN 280 * progress
       + (1200 * (speed - VEHICLE_MIN_VELOCITY))
            \div (VEHICLE_MAX_VELOCITY - VEHICLE_MIN_VELOCITY)

\* GyTARRouter._find_next_vehicle_hop: a location, or None
gy_find_next_vehicle_hop(current, target, vehicles) ==
    LET Forward(vehicle_data) == gy_is_forward_progress(current, vehicle_data.location, target)
        candidates == SelectSeq(vehicles, Forward)
        best == FirstBest(candidates,
                    [i \in 1..Len(candidates) |->
                        gy_calculate_vehicle_hop_score(current, candidates[i].location,
                                                       target, candidates[i].speed)])
    IN IF best = None THEN None ELSE best.location

\* the first MaxRoute waypoints of a route
Kept(route) == IF Len(route) > MaxRoute THEN SubSeq(route, 1, MaxRoute) ELSE route

\* the length above which GyTARRouter.update_traffic clears the cache
GY_CACHE_LIMIT == 100

\* the cache is left as it is
gy_update_traffic_Never(route_cache) == route_cache

\* GyTARRouter.update_traffic: the route cache after the call
gy_update_traffic(route_cache) ==
    IF Cardinality(DOMAIN route_cache) > GY_CACHE_LIMIT THEN <<>> ELSE route_cache

(* --------------------------- algorithms/aodv.py ------------------------ *)
\* the interval of AODVRouter.cleanup_old_entries, in seconds
CLEANUP_INTERVAL == 60

\* AODVRouter._location_to_key: the f-string of the two coordinates
location_to_key(location) == <<location.x, location.y>>

\* self._distance(point1, point2) <= MAX_V2V_RANGE, which is
\* d <= MAX_V2V_RANGE ** 2 for the sum of squares d
aodv_in_range(point1, point2) ==
    DistanceSq(point1, point2) <= MAX_V2V_RANGE * MAX_V2V_RANGE

\* AODVRouter._find_nearest_vehicle: the first vehicle_data at the least distance,
\* None for an empty map
aodv_find_nearest_vehicle(location, vehicles) ==
    FirstBest(vehicles,
              [i \in 1..Len(vehicles) |-> 0 - DistanceSq(location, vehicles[i].location)])

\* AODVRouter._calculate_link_stability, times
\* 2 * (VEHICLE_MAX_VELOCITY - VEHICLE_MIN_VELOCITY) * MAX_V2V_RANGE:
\* 0.5 * (1 - |speed1_norm - speed2_norm|) + 0.5 * (1 - distance / MAX_V2V_RANGE)
aodv_calculate_link_stability(speed1, speed2, distance) ==
    LET range == VEHICLE_MAX_VELOCITY - VEHICLE_MIN_VELOCITY
    IN MAX_V2V_RANGE * (range - Abs(speed1 - speed2))
       + range * (MAX_V2V_RANGE - distance)

\* AODVRouter._calculate_route_stability, on the same scale: the least link
\* stability, 0.0 when no link has a vehicle near both ends
aodv_calculate_route_stability(route, vehicles) ==
    LET links == {i \in 1..(Len(route) - 1) :
                     /\ aodv_find_nearest_vehicle(route[i], vehicles) # None
                     /\ aodv_find_nearest_vehicle(route[i + 1], vehicles) # None}
        Stability(i) ==
            aodv_calculate_link_stability(
                aodv_find_nearest_vehicle(route[i], vehicles).speed,
                aodv_find_nearest_vehicle(route[i + 1], vehicles).speed,
                Distance(route[i], route[i + 1]))
    IN IF links = {} THEN 0
       ELSE Stability(CHOOSE i \in links : \A j \in links : Stability(i) <= Stability(j))

\* AODVRouter._calculate_route_score of a route of two waypoints or more, on the
\* same scale, as an exact fraction: 0.4 * 1 / (len(route) - 1) + 0.6 * stability
aodv_calculate_route_score(route, vehicles) ==
    LET hops == Len(route) - 1
        scale == 2 * (VEHICLE_MAX_VELOCITY - VEHICLE_MIN_VELOCITY) * MAX_V2V_RANGE
    IN Rat(2 * scale + 3 * hops * aodv_calculate_route_stability(route, vehicles),
           5 * hops)

\* the first route discovered is taken, whatever its score
aodv_select_best_route_First(routes, vehicles) ==
    IF routes = <<>> THEN <<>> ELSE routes[1]

\* AODVRouter._select_best_route: [] for no route, else the first route of the
\* greatest score; sc holds the values of the scores
aodv_select_best_route(routes, vehicles) ==
    IF routes = <<>> THEN <<>>
    ELSE CHOOSE best_route \in
            {routes[CHOOSE i \in 1..Len(routes) :
                       /\ \A j \in 1..Len(routes) : RatLeq(sc[j], sc[i])
                       /\ \A j \in 1..(i - 1) : ~RatLeq(sc[i], sc[j])]
             : sc \in {[i \in 1..Len(routes) |->
                          aodv_calculate_route_score(routes[i], vehicles)]}} : TRUE

\* a cache whose entries are never checked
aodv_is_route_valid_Always(route, vehicles) == TRUE

\* AODVRouter._is_route_valid
aodv_is_route_valid(route, vehicles) ==
    \A i \in 1..(Len(route) - 1) :
        \E k \in 1..Len(vehicles) :
            /\ aodv_in_range(route[i], vehicles[k].location)
            /\ aodv_in_range(route[i + 1], vehicles[k].location)

\* a flood that enqueues the vehicles in range whether visited or not
aodv_neighbors_NoVisited(current, path, vehicles, visited) ==
    LET Near(i) == aodv_in_range(current, vehicles[i].location)
        near == SelectSeq([i \in 1..Len(vehicles) |-> i], Near)
    IN [k \in 1..Len(near) |->
           [current |-> vehicles[near[k]].location,
            path |-> Append(path, vehicles[near[k]].location)]]

\* the loop of _discover_route lines 74-82: the queue entries of the vehicles in
\* range of current whose location is not visited, each location once, in the
\* order of the dict
aodv_neighbors(current, path, vehicles, visited) ==
    LET Fresh(i) ==
            /\ location_to_key(vehicles[i].location) \notin visited
            /\ aodv_in_range(current, vehicles[i].location)
            /\ \A j \in 1..(i - 1) : vehicles[j].location # vehicles[i].location
        fresh == SelectSeq([i \in 1..Len(vehicles) |-> i], Fresh)
    IN [k \in 1..Len(fresh) |->
           [current |-> vehicles[fresh[k]].location,
            path |-> Append(path, vehicles[fresh[k]].location)]]

\* the empty route of _discover_route is returned as it is
aodv_direct_path_Empty(source_location, destination_location) == <<>>

\* find_route line 47: the direct path
aodv_direct_path(source_location, destination_location) ==
    <<source_location, destination_location>>

(* -------------------------- initial state ------------------------------ *)
\* the two threads an RSU starts in RSU.__init__
Threads == RSUs \X {"listen", "periodic"}

\* the (RSU, vehicle) pairs whose beacons reach the RSU
InRange == {<<"RSU_0", "V_0">>, <<"RSU_0", "V_1">>, <<"RSU_1", "V_0">>}

NoLoc == Loc(0, 0)
NoCall == [source |-> NoLoc, destination |-> NoLoc, vehicles |-> <<>>, traffic |-> <<>>]

InitRouters ==
    /\ tmr_pc = "idle"
    /\ tmr_route_cache = <<>>
    /\ tmr_call = NoCall
    /\ tmr_current_pos = NoLoc
    /\ tmr_route = <<>>
    /\ gy_pc = "idle"
    /\ gy_route_cache = <<>>
    /\ gy_call = NoCall
    /\ gy_current_pos = NoLoc
    /\ gy_route = <<>>
    /\ gy_junction = NoLoc
    /\ gy_current = NoLoc
    /\ gy_path = <<>>
    /\ aodv_pc = "idle"
    /\ aodv_route_cache = <<>>
    /\ aodv_rreq_buffer = {}
    /\ aodv_last_cleanup = 0
    /\ aodv_call = NoCall
    /\ aodv_queue = <<>>
    /\ aodv_visited = {}
    /\ aodv_discovered = <<>>
    /\ aodv_route = <<>>

\* VANETSimulation.__init__ and initialize_network: one Blockchain, shared by
\* the RSUs, each with empty tables and its two threads started
Init ==
    /\ now = 0
    /\ traffic_data = [r \in RSUs |-> InitialTraffic]
    /\ chain = <<create_genesis_block(0, traffic_data)>>
    /\ malicious_vehicles = {}
    /\ connected_vehicles = [r \in RSUs |-> <<>>]
    /\ suspicious_count = [r \in RSUs |-> <<>>]
    /\ pc = [th \in Threads |-> "idle"]
    /\ frame = [th \in Threads |-> <<>>]
    /\ InitRouters

(* -------------------- the RSUs, one call at a time --------------------- *)
\* time passes between two steps
Tick ==
    /\ now < MaxTime
    /\ now' = now + 1
    /\ UNCHANGED <<ledgerVars, rsuVars, threadVars, tmrVars, gyVars, aodvVars>>

\* RSU._update_vehicle_data(vehicle_id, data, addr) at RSU r
UpdateVehicleData(r, vehicle_id, data) ==
    LET conn == connected_vehicles[r]
        count == CountOf(suspicious_count[r], vehicle_id) + 1
    IN /\ UNCHANGED <<now, traffic_data, threadVars, tmrVars, gyVars, aodvVars>>
       /\ IF Rejected(vehicle_id)
          THEN UNCHANGED <<chain, malicious_vehicles, connected_vehicles, suspicious_count>>
          ELSE IF Flagged(conn, get_malicious_vehicles, vehicle_id, data, now)
          THEN /\ suspicious_count' =
                     [suspicious_count EXCEPT ![r] = DictPut(@, vehicle_id, count)]
               /\ IF count >= SUSPICION_LIMIT
                  THEN /\ Len(chain) < MaxChain
                       /\ add_malicious_vehicle(vehicle_id)
                       /\ connected_vehicles' =
                             [connected_vehicles EXCEPT ![r] = EvictMarked(@, vehicle_id)]
                  ELSE /\ connected_vehicles' =
                             [connected_vehicles EXCEPT
                                 ![r] = DictPut(@, vehicle_id, Stored(data, now))]
                       /\ UNCHANGED <<chain, malicious_vehicles>>
          ELSE /\ connected_vehicles' =
                     [connected_vehicles EXCEPT
                         ![r] = DictPut(@, vehicle_id, Stored(data, now))]
               /\ UNCHANGED <<chain, malicious_vehicles, suspicious_count>>

\* one round of RSU._periodic_tasks at RSU r: _broadcast_beacon (which writes
\* nothing), _update_traffic_data, record_rsu_data
PeriodicTasks(r) ==
    /\ Len(chain) < MaxChain
    /\ traffic_data' = [traffic_data EXCEPT ![r] =
           update_traffic_data(connected_vehicles[r], get_malicious_vehicles, @, now)]
    /\ record_rsu_data(r, DOMAIN connected_vehicles[r])
    /\ UNCHANGED <<now, connected_vehicles, suspicious_count, threadVars, tmrVars, gyVars, aodvVars>>

\* the detectors of the RSUs and the ledger they share
Next ==
    \/ Tick
    \/ \E p \in InRange : \E data \in BeaconsOf(p[2]) : UpdateVehicleData(p[1], p[2], data)

Spec == Init /\ [][Next]_vars

\* one RSU and one vehicle that reports a speed of 80 km/h from points of one
\* road
KinematicBeacons ==
    { [location |-> Loc(x, 0), speed |-> 80] : x \in {0, 22, 26, 27, 54, 1000} }

NextKinematic ==
    \/ Tick
    \/ \E data \in KinematicBeacons : UpdateVehicleData("RSU_0", "V_0", data)

SpecKinematic == Init /\ [][NextKinematic]_vars

\* one RSU and two vehicles whose beacons fail no check, one check or two
CounterBeacons ==
    { [location |-> Loc(0, 0), speed |-> 80],
      [location |-> Loc(0, 0), speed |-> 160],
      [location |-> Loc(0 - 50, 0), speed |-> 80],
      [location |-> Loc(0 - 50, 0), speed |-> 160] }

NextCounter ==
    \/ Tick
    \/ \E vehicle_id \in VehicleIds, data \in CounterBeacons :
          UpdateVehicleData("RSU_0", vehicle_id, data)

SpecCounter == Init /\ [][NextCounter]_vars

\* one RSU and one vehicle that reports speeds around the bound from one point
SpeedBeacons ==
    { [location |-> Loc(0, 0), speed |-> speed] : speed \in {80, 100, 149, 150, 151, 160} }

NextSpeed ==
    \/ Tick
    \/ \E data \in SpeedBeacons : UpdateVehicleData("RSU_0", "V_0", data)

SpecSpeed == Init /\ [][NextSpeed]_vars

\* one RSU and one vehicle that reports a speed of 80 km/h from points around
\* two corners of the network rectangle
GeoBeacons ==
    { [location |-> Loc(x, 0), speed |-> 80] : x \in {0, 0 - 10, 0 - 11} }
    \cup { [location |-> Loc(0, y), speed |-> 80] : y \in {0 - 10, 0 - 11} }
    \cup { [location |-> Loc(NETWORK_LENGTH + dx, NETWORK_WIDTH), speed |-> 80] :
              dx \in {0, 10, 11} }
    \cup { [location |-> Loc(NETWORK_LENGTH, NETWORK_WIDTH + dy), speed |-> 80] :
              dy \in {10, 11} }

NextGeo ==
    \/ Tick
    \/ \E data \in GeoBeacons : UpdateVehicleData("RSU_0", "V_0", data)

SpecGeo == Init /\ [][NextGeo]_vars

\* one RSU with its periodic rounds
PeriodicBeacons ==
    { [location |-> Loc(0, 0), speed |-> 80, sees_accident |-> FALSE],
      [location |-> Loc(0, 0), speed |-> 160] }

NextRsu ==
    \/ Tick
    \/ \E data \in PeriodicBeacons : UpdateVehicleData("RSU_0", "V_0", data)
    \/ PeriodicTasks("RSU_0")

SpecRsu == Init /\ [][NextRsu]_vars

(* ------------------- the ledger, called from outside ------------------- *)
RecordVehicleData(vehicle_id, data) ==
    /\ Len(chain) < MaxChain
    /\ UNCHANGED <<now, rsuVars, threadVars, tmrVars, gyVars, aodvVars>>
    /\ record_vehicle_data(vehicle_id, data.location, data.speed, data.direction, "beacon")

RecordRsuData(r, connected) ==
    /\ Len(chain) < MaxChain
    /\ UNCHANGED <<now, rsuVars, threadVars, tmrVars, gyVars, aodvVars>>
    /\ record_rsu_data(r, connected)

AddMaliciousVehicle(vehicle_id) ==
    /\ Len(chain) < MaxChain
    /\ UNCHANGED <<now, rsuVars, threadVars, tmrVars, gyVars, aodvVars>>
    /\ add_malicious_vehicle(vehicle_id)

NextLedger ==
    \/ Tick
    \/ \E vehicle_id \in VehicleIds :
          RecordVehicleData(vehicle_id,
                            [location |-> Loc(0, 0), speed |-> 80, direction |-> 0])
    \/ \E r \in RSUs, connected \in {{}, VehicleIds} : RecordRsuData(r, connected)
    \/ \E vehicle_id \in VehicleIds : AddMaliciousVehicle(vehicle_id)

SpecLedger == Init /\ [][NextLedger]_vars

\* a stored block whose payload was overwritten behind the ledger's back
Corrupted == [message |-> "corrupted"]

\* the payload of block k - 1 is corrupted, once
Tamper(k) ==
    /\ \A i \in 1..Len(chain) : chain[i].data # Corrupted
    /\ chain' = [chain EXCEPT ![k].data = Corrupted]
    /\ UNCHANGED <<now, malicious_vehicles, rsuVars, threadVars, tmrVars, gyVars, aodvVars>>

NextTamper ==
    \/ NextLedger
    \/ \E k \in 1..Len(chain) : Tamper(k)

SpecTamper == Init /\ [][NextTamper]_vars

(* ---------------- the RSU threads, statement by statement --------------- *)
\* the calls of add_block that have started and not yet appended
InFlight == Cardinality({th \in Threads : pc[th] \in {"add_malicious", "read", "append"}})

\* a listener that starts on the next message before the update in hand is done
ListenerFree_Always(r) == TRUE

\* _listen lines 60-64: the loop of the one listener thread of RSU r is back at
\* recvfrom, the call of _handle_message of the message before it returned
ListenerFree(r) == pc[<<r, "listen">>] = "idle"

\* the listener thread of RSU r runs _update_vehicle_data(vehicle_id, data, addr)
\* from line 91 to the call of add_malicious_vehicle at line 155, or to its
\* return when the vehicle is not marked
LUpdate(r, vehicle_id, data) ==
    LET th == <<r, "listen">>
        conn == connected_vehicles[r]
        count == CountOf(suspicious_count[r], vehicle_id) + 1
    IN /\ ListenerFree(r)
       /\ UNCHANGED <<now, traffic_data, ledgerVars, tmrVars, gyVars, aodvVars>>
       /\ IF Rejected(vehicle_id)
          THEN UNCHANGED <<connected_vehicles, suspicious_count, threadVars>>
          ELSE IF Flagged(conn, get_malicious_vehicles, vehicle_id, data, now)
          THEN /\ suspicious_count' =
                     [suspicious_count EXCEPT ![r] = DictPut(@, vehicle_id, count)]
               /\ IF count >= SUSPICION_LIMIT
                  THEN /\ Len(chain) + InFlight < MaxChain
                       /\ pc' = [pc EXCEPT ![th] = "add_malicious"]
                       /\ frame' = [frame EXCEPT ![th] = [vehicle_id |-> vehicle_id]]
                       /\ UNCHANGED connected_vehicles
                  ELSE /\ connected_vehicles' =
                             [connected_vehicles EXCEPT
                                 ![r] = DictPut(@, vehicle_id, Stored(data, now))]
                       /\ UNCHANGED threadVars
          ELSE /\ connected_vehicles' =
                     [connected_vehicles EXCEPT
                         ![r] = DictPut(@, vehicle_id, Stored(data, now))]
               /\ UNCHANGED <<suspicious_count, threadVars>>

\* blockchain.py lines 54-59 in the listener thread of RSU r: the id joins the
\* set and the payload of the marking block is built
LAddMalicious(r) ==
    LET th == <<r, "listen">>
    IN /\ pc[th] = "add_malicious"
       /\ malicious_vehicles' = malicious_vehicles \cup {frame[th].vehicle_id}
       /\ frame' = [frame EXCEPT ![th] =
                       [vehicle_id |-> frame[th].vehicle_id,
                        data |-> MaliciousPayload(frame[th].vehicle_id, now)]]
       /\ pc' = [pc EXCEPT ![th] = "read"]
       /\ UNCHANGED <<now, chain, rsuVars, tmrVars, gyVars, aodvVars>>

\* one round of _periodic_tasks in the periodic thread of RSU r, lines 183-199,
\* to the call of add_block: the beacon, _update_traffic_data and the payload
\* with list(connected_vehicles.keys())
PBegin(r) ==
    LET th == <<r, "periodic">>
    IN /\ pc[th] = "idle"
       /\ Len(chain) + InFlight < MaxChain
       /\ traffic_data' = [traffic_data EXCEPT ![r] =
              update_traffic_data(connected_vehicles[r], get_malicious_vehicles, @, now)]
       /\ frame' = [frame EXCEPT ![th] =
                       [data |-> RsuPayload(r, DOMAIN connected_vehicles[r], now)]]
       /\ pc' = [pc EXCEPT ![th] = "read"]
       /\ UNCHANGED <<now, ledgerVars, connected_vehicles, suspicious_count, tmrVars, gyVars, aodvVars>>

\* add_block line 30: previous_block = self.get_latest_block()
ReadLatest(th) ==
    /\ pc[th] = "read"
    /\ frame' = [frame EXCEPT ![th] = [previous_block |-> get_latest_block(chain)] @@ @]
    /\ pc' = [pc EXCEPT ![th] = "append"]
    /\ UNCHANGED <<now, ledgerVars, rsuVars, tmrVars, gyVars, aodvVars>>

\* add_block lines 31-38: the new block is built on previous_block and appended
AppendBlock(th) ==
    /\ pc[th] = "append"
    /\ chain' = Append(chain, new_block(frame[th].previous_block, frame[th].data, now,
                                        traffic_data))
    /\ IF th[2] = "listen"
       THEN /\ pc' = [pc EXCEPT ![th] = "evict"]
            /\ frame' = [frame EXCEPT ![th] = [vehicle_id |-> frame[th].vehicle_id]]
       ELSE /\ pc' = [pc EXCEPT ![th] = "idle"]
            /\ frame' = [frame EXCEPT ![th] = <<>>]
    /\ UNCHANGED <<now, malicious_vehicles, rsuVars, tmrVars, gyVars, aodvVars>>

\* rsu.py lines 156-158 in the listener thread of RSU r
LEvict(r) ==
    LET th == <<r, "listen">>
    IN /\ pc[th] = "evict"
       /\ connected_vehicles' =
             [connected_vehicles EXCEPT ![r] = EvictMarked(@, frame[th].vehicle_id)]
       /\ pc' = [pc EXCEPT ![th] = "idle"]
       /\ frame' = [frame EXCEPT ![th] = <<>>]
       /\ UNCHANGED <<now, ledgerVars, suspicious_count, traffic_data, tmrVars, gyVars, aodvVars>>

\* _update_traffic_data line 248 in the periodic thread of RSU r: the dict
\* comprehension starts to iterate connected_vehicles.items(), the iterator
\* holding the size of the dict
PScan(r) ==
    LET th == <<r, "periodic">>
    IN /\ pc[th] = "idle"
       /\ Len(chain) + InFlight < MaxChain
       /\ frame' = [frame EXCEPT ![th] =
                       [used |-> Cardinality(DOMAIN connected_vehicles[r])]]
       /\ pc' = [pc EXCEPT ![th] = "scan"]
       /\ UNCHANGED <<now, ledgerVars, rsuVars, tmrVars, gyVars, aodvVars>>

\* the iteration of lines 248-252 comes to its end and the round goes on to
\* the call of add_block at line 196; over a dict whose size changed since the
\* iteration started, it ends so only when the change came after its last
\* step, and raises RuntimeError otherwise, which nothing in _periodic_tasks
\* catches: the thread is dead
PScanEnd(r) ==
    LET th == <<r, "periodic">>
    IN /\ pc[th] = "scan"
       /\ \/ /\ traffic_data' = [traffic_data EXCEPT ![r] =
                    update_traffic_data(connected_vehicles[r], get_malicious_vehicles,
                                        @, now)]
             /\ frame' = [frame EXCEPT ![th] =
                             [data |-> RsuPayload(r, DOMAIN connected_vehicles[r], now)]]
             /\ pc' = [pc EXCEPT ![th] = "read"]
          \/ /\ Cardinality(DOMAIN connected_vehicles[r]) # frame[th].used
             /\ pc' = [pc EXCEPT ![th] = "dead"]
             /\ frame' = [frame EXCEPT ![th] = <<>>]
             /\ UNCHANGED traffic_data
       /\ UNCHANGED <<now, ledgerVars, connected_vehicles, suspicious_count, tmrVars, gyVars, aodvVars>>

\* the beacon of a speeding vehicle
SpeederBeacon == [location |-> Loc(0, 0), speed |-> 160]

\* the threads of the RSUs, interleaved between their statements
NextConc ==
    \/ Tick
    \/ LUpdate("RSU_0", "V_0", SpeederBeacon)
    \/ \E r \in RSUs : LAddMalicious(r)
    \/ \E r \in RSUs : PBegin(r)
    \/ \E th \in Threads : ReadLatest(th)
    \/ \E th \in Threads : AppendBlock(th)
    \/ \E r \in RSUs : LEvict(r)

SpecConc == Init /\ [][NextConc]_vars

(* ----------------------- the routing strategies ------------------------ *)
\* the neighbor maps: the lists of at most MaxSnapshots snapshots, in the order
\* of the dict
RECURSIVE ListsUpTo(_, _)
ListsUpTo(S, n) ==
    IF n = 0 THEN {<<>>}
    ELSE LET shorter == ListsUpTo(S, n - 1)
         IN shorter \cup {Append(l, e) : l \in shorter, e \in S}

TrafficSummaries == {<<>>, [congestion_level |-> 5]}

\* the snapshots a caller of TMRRouter.find_route may pass, and its trips
TmrSnapshots ==
    { [location |-> Loc(0, 0), speed |-> 80],
      [location |-> Loc(300, 0), speed |-> 160],
      [location |-> Loc(301, 0), speed |-> 60],
      [location |-> Loc(950, 0), speed |-> 60] }

TmrTrips ==
    { [source |-> Loc(0, 0), destination |-> Loc(1000, 0)],
      [source |-> Loc(0, 0), destination |-> Loc(50, 0)] }

\* a find_route that computes every route afresh, cached or not
TmrCall_Fresh(trip, vehicles, traffic) ==
    /\ tmr_pc \in {"idle", "return_cached", "return_computed", "traffic_updated"}
    /\ tmr_call' = [source |-> trip.source, destination |-> trip.destination,
                    vehicles |-> vehicles, traffic |-> traffic]
    /\ tmr_current_pos' = trip.source
    /\ tmr_route' = <<trip.source>>
    /\ tmr_pc' = "loop"
    /\ UNCHANGED tmr_route_cache
    /\ UNCHANGED <<now, ledgerVars, rsuVars, threadVars, gyVars, aodvVars>>

\* TMRRouter.find_route is called, lines 26-34: the cached route is returned,
\* or the loop is entered
TmrCall(trip, vehicles, traffic) ==
    LET key == route_key(trip.source, trip.destination)
    IN /\ tmr_pc \in {"idle", "return_cached", "return_computed", "traffic_updated"}
       /\ tmr_call' = [source |-> trip.source, destination |-> trip.destination,
                       vehicles |-> vehicles, traffic |-> traffic]
       /\ IF key \in DOMAIN tmr_route_cache
          THEN /\ tmr_route' = tmr_route_cache[key]
               /\ tmr_pc' = "return_cached"
               /\ UNCHANGED <<tmr_current_pos, tmr_route_cache>>
          ELSE /\ tmr_current_pos' = trip.source
               /\ tmr_route' = <<trip.source>>
               /\ tmr_pc' = "loop"
               /\ UNCHANGED tmr_route_cache
       /\ UNCHANGED <<now, ledgerVars, rsuVars, threadVars, gyVars, aodvVars>>

\* whether the loop of lines 36-41 runs its body to the end once more
TmrContinues ==
    /\ Distance(tmr_current_pos, tmr_call.destination) > 100
    /\ tmr_find_next_hop(tmr_current_pos, tmr_call.destination, tmr_call.vehicles,
                         tmr_call.traffic) # None

\* a loop that takes the chosen vehicle out of the neighbor map of the caller
TmrHop_Consumes ==
    LET next_hop == tmr_find_next_hop(tmr_current_pos, tmr_call.destination,
                                      tmr_call.vehicles, tmr_call.traffic)
        Others(vehicle_data) == vehicle_data.location # next_hop
    IN /\ tmr_pc = "loop"
       /\ TmrContinues
       /\ tmr_route' = Append(tmr_route, next_hop)
       /\ tmr_current_pos' = next_hop
       /\ tmr_call' = [tmr_call EXCEPT !.vehicles = SelectSeq(@, Others)]
       /\ UNCHANGED <<tmr_pc, tmr_route_cache>>
       /\ UNCHANGED <<now, ledgerVars, rsuVars, threadVars, gyVars, aodvVars>>

\* one iteration of the loop, lines 36-41
TmrHop ==
    LET next_hop == tmr_find_next_hop(tmr_current_pos, tmr_call.destination,
                                      tmr_call.vehicles, tmr_call.traffic)
    IN /\ tmr_pc = "loop"
       /\ TmrContinues
       /\ tmr_route' = Append(tmr_route, next_hop)
       /\ tmr_current_pos' = next_hop
       /\ UNCHANGED <<tmr_pc, tmr_route_cache, tmr_call>>
       /\ UNCHANGED <<now, ledgerVars, rsuVars, threadVars, gyVars, aodvVars>>

\* the loop is left, lines 43-45
TmrReturn ==
    /\ tmr_pc = "loop"
    /\ ~TmrContinues
    /\ tmr_route' = Append(tmr_route, tmr_call.destination)
    /\ tmr_route_cache' = DictPut(tmr_route_cache,
                                  route_key(tmr_call.source, tmr_call.destination),
                                  tmr_route')
    /\ tmr_pc' = "return_computed"
    /\ UNCHANGED <<tmr_current_pos, tmr_call>>
    /\ UNCHANGED <<now, ledgerVars, rsuVars, threadVars, gyVars, aodvVars>>

NextTMR ==
    \/ \E trip \in TmrTrips, vehicles \in ListsUpTo(TmrSnapshots, MaxSnapshots),
          traffic \in TrafficSummaries : TmrCall(trip, vehicles, traffic)
    \/ TmrHop
    \/ TmrReturn

\* a call of find_route that has started runs on
FairSpecTMR ==
    /\ Init
    /\ [][NextTMR]_vars
    /\ WF_vars(TmrHop)
    /\ WF_vars(TmrReturn)

\* the snapshots a caller of GyTARRouter.find_route may pass, and its trips
GySnapshots ==
    { [location |-> Loc(300, 0), speed |-> 80],
      [location |-> Loc(400, 0), speed |-> 100],
      [location |-> Loc(100, 0), speed |-> 60] }

GyTrips ==
    { [source |-> Loc(0, 0), destination |-> Loc(1500, 0)],
      [source |-> Loc(250, 0), destination |-> Loc(1500, 0)],
      [source |-> Loc(250, 0), destination |-> Loc(500, 0)],
      [source |-> Loc(2900, 0), destination |-> Loc(1500, 0)],
      [source |-> Loc(450, 0), destination |-> Loc(500, 0)] }

\* GyTARRouter.find_route is called, lines 30-38
GyCall(trip, vehicles, traffic) ==
    LET key == route_key(trip.source, trip.destination)
    IN /\ gy_pc \in {"idle", "returned", "traffic_updated"}
       /\ gy_call' = [source |-> trip.source, destination |-> trip.destination,
                      vehicles |-> vehicles, traffic |-> traffic]
       /\ IF key \in DOMAIN gy_route_cache
          THEN /\ gy_route' = gy_route_cache[key]
               /\ gy_pc' = "returned"
               /\ UNCHANGED <<gy_current_pos, gy_route_cache>>
          ELSE /\ gy_current_pos' = trip.source
               /\ gy_route' = <<trip.source>>
               /\ gy_pc' = "outer"
               /\ UNCHANGED gy_route_cache
       /\ UNCHANGED <<gy_junction, gy_current, gy_path>>
       /\ UNCHANGED <<now, ledgerVars, rsuVars, threadVars, tmrVars, aodvVars>>

\* whether the loop of lines 40-60 runs its body once more
GyContinues ==
    /\ Distance(gy_current_pos, gy_call.destination) > 100
    /\ gy_find_next_junction(gy_current_pos, gy_call.destination, gy_call.vehicles,
                             gy_call.traffic) # None

\* lines 40-53 and 144-145: the next junction is chosen and
\* _find_path_to_junction starts
GyNextJunction ==
    /\ gy_pc = "outer"
    /\ GyContinues
    /\ gy_junction' = gy_find_next_junction(gy_current_pos, gy_call.destination,
                                            gy_call.vehicles, gy_call.traffic)
    /\ gy_path' = <<gy_current_pos>>
    /\ gy_current' = gy_current_pos
    /\ gy_pc' = "inner"
    /\ UNCHANGED <<gy_route_cache, gy_call, gy_current_pos, gy_route>>
    /\ UNCHANGED <<now, ledgerVars, rsuVars, threadVars, tmrVars, aodvVars>>

\* whether the loop of lines 147-152 runs its body to the end once more
GyPathContinues ==
    /\ Distance(gy_current, gy_junction) > 100
    /\ gy_find_next_vehicle_hop(gy_current, gy_junction, gy_call.vehicles) # None

\* one iteration of the loop of _find_path_to_junction, lines 147-152
GyPathHop ==
    LET next_hop == gy_find_next_vehicle_hop(gy_current, gy_junction, gy_call.vehicles)
    IN /\ gy_pc = "inner"
       /\ GyPathContinues
       /\ gy_path' = Append(gy_path, next_hop)
       /\ gy_current' = next_hop
       /\ UNCHANGED <<gy_pc, gy_route_cache, gy_call, gy_current_pos, gy_route, gy_junction>>
       /\ UNCHANGED <<now, ledgerVars, rsuVars, threadVars, tmrVars, aodvVars>>

\* _find_path_to_junction returns, lines 154-155, and find_route goes on with
\* lines 59-60
GyPathReturn ==
    /\ gy_pc = "inner"
    /\ ~GyPathContinues
    /\ gy_route' = Kept(gy_route \o Append(gy_path, gy_junction))
    /\ gy_current_pos' = gy_junction
    /\ gy_pc' = "outer"
    /\ UNCHANGED <<gy_route_cache, gy_call, gy_junction, gy_current, gy_path>>
    /\ UNCHANGED <<now, ledgerVars, rsuVars, threadVars, tmrVars, aodvVars>>

\* the loop of find_route is left, lines 62-64
GyReturn ==
    /\ gy_pc = "outer"
    /\ ~GyContinues
    /\ gy_route' = Kept(Append(gy_route, gy_call.destination))
    /\ gy_route_cache' = DictPut(gy_route_cache,
                                 route_key(gy_call.source, gy_call.destination),
                                 gy_route')
    /\ gy_pc' = "returned"
    /\ UNCHANGED <<gy_call, gy_current_pos, gy_junction, gy_current, gy_path>>
    /\ UNCHANGED <<now, ledgerVars, rsuVars, threadVars, tmrVars, aodvVars>>

NextGyTAR ==
    \/ \E trip \in GyTrips, vehicles \in ListsUpTo(GySnapshots, MaxSnapshots),
          traffic \in TrafficSummaries : GyCall(trip, vehicles, traffic)
    \/ GyNextJunction
    \/ GyPathHop
    \/ GyPathReturn
    \/ GyReturn

\* a call of find_route that has started runs on
FairSpecGyTAR ==
    /\ Init
    /\ [][NextGyTAR]_vars
    /\ WF_vars(GyNextJunction)
    /\ WF_vars(GyPathHop)
    /\ WF_vars(GyPathReturn)
    /\ WF_vars(GyReturn)

\* the snapshots a caller of AODVRouter.find_route may pass, and its trips
AodvSnapshots ==
    { [location |-> Loc(300, 0), speed |-> 80],
      [location |-> Loc(200, 0), speed |-> 100],
      [location |-> Loc(900, 0), speed |-> 60] }

AodvTrips ==
    { [source |-> Loc(0, 0), destination |-> Loc(400, 0)],
      [source |-> Loc(0, 0), destination |-> Loc(200, 0)],
      [source |-> Loc(0, 0), destination |-> Loc(1500, 0)] }

\* AODVRouter.find_route is called, lines 30-40 and 54-62: a cached route that
\* is still valid is returned; else it is dropped and the discovery starts
AodvCall(trip, vehicles, traffic) ==
    LET key == route_key(trip.source, trip.destination)
    IN /\ aodv_pc \in {"idle", "return_cached", "return_computed", "return_fallback",
                       "cleaned"}
       /\ aodv_call' = [source |-> trip.source, destination |-> trip.destination,
                        vehicles |-> vehicles, traffic |-> traffic]
       /\ IF key \in DOMAIN aodv_route_cache
             /\ aodv_is_route_valid(aodv_route_cache[key], vehicles)
          THEN /\ aodv_route' = aodv_route_cache[key]
               /\ aodv_pc' = "return_cached"
               /\ UNCHANGED <<aodv_route_cache, aodv_queue, aodv_visited, aodv_discovered>>
          ELSE /\ aodv_route_cache' = DictDel(aodv_route_cache, key)
               /\ aodv_queue' = <<[current |-> trip.source, path |-> <<trip.source>>]>>
               /\ aodv_visited' = {location_to_key(trip.source)}
               /\ aodv_discovered' = <<>>
               /\ aodv_route' = <<>>
               /\ aodv_pc' = "discover"
       /\ UNCHANGED <<aodv_rreq_buffer, aodv_last_cleanup>>
       /\ UNCHANGED <<now, ledgerVars, rsuVars, threadVars, tmrVars, gyVars>>

\* one iteration of the loop of _discover_route, lines 64-82
AodvVisit ==
    /\ aodv_pc = "discover"
    /\ aodv_queue # <<>>
    /\ \E entries \in {aodv_neighbors(Head(aodv_queue).current, Head(aodv_queue).path,
                                      aodv_call.vehicles, aodv_visited)} :
          IF aodv_in_range(Head(aodv_queue).current, aodv_call.destination)
          THEN /\ aodv_discovered' =
                     Append(aodv_discovered,
                            Append(Head(aodv_queue).path, aodv_call.destination))
               /\ aodv_queue' = Tail(aodv_queue)
               /\ UNCHANGED aodv_visited
          ELSE /\ aodv_queue' = Tail(aodv_queue) \o entries
               /\ aodv_visited' = aodv_visited \cup
                     {location_to_key(entries[k].current) : k \in 1..Len(entries)}
               /\ UNCHANGED aodv_discovered
    /\ UNCHANGED <<aodv_pc, aodv_route_cache, aodv_rreq_buffer, aodv_last_cleanup,
                   aodv_call, aodv_route>>
    /\ UNCHANGED <<now, ledgerVars, rsuVars, threadVars, tmrVars, gyVars>>

\* the queue is empty: _discover_route line 85 and find_route lines 42-47
AodvSelect ==
    /\ aodv_pc = "discover"
    /\ aodv_queue = <<>>
    /\ \E route \in {aodv_select_best_route(aodv_discovered, aodv_call.vehicles)} :
          IF route # <<>>
          THEN /\ aodv_route_cache' =
                     DictPut(aodv_route_cache,
                             route_key(aodv_call.source, aodv_call.destination), route)
               /\ aodv_route' = route
               /\ aodv_pc' = "return_computed"
          ELSE /\ aodv_route' = aodv_direct_path(aodv_call.source, aodv_call.destination)
               /\ aodv_pc' = "return_fallback"
               /\ UNCHANGED aodv_route_cache
    /\ UNCHANGED <<aodv_rreq_buffer, aodv_last_cleanup, aodv_call, aodv_queue,
                   aodv_visited, aodv_discovered>>
    /\ UNCHANGED <<now, ledgerVars, rsuVars, threadVars, tmrVars, gyVars>>

\* AODVRouter.cleanup_old_entries, called between two calls of find_route
AodvCleanup ==
    /\ aodv_pc # "discover"
    /\ IF now - aodv_last_cleanup >= CLEANUP_INTERVAL
       THEN /\ aodv_rreq_buffer' = {}
            /\ aodv_route_cache' = <<>>
            /\ aodv_last_cleanup' = now
       ELSE UNCHANGED <<aodv_rreq_buffer, aodv_route_cache, aodv_last_cleanup>>
    /\ aodv_pc' = "cleaned"
    /\ UNCHANGED <<aodv_call, aodv_queue, aodv_visited, aodv_discovered, aodv_route>>
    /\ UNCHANGED <<now, ledgerVars, rsuVars, threadVars, tmrVars, gyVars>>

\* half a cleanup interval passes
Elapse ==
    /\ 2 * (now + CLEANUP_INTERVAL \div 2) <= MaxTime * CLEANUP_INTERVAL
    /\ now' = now + CLEANUP_INTERVAL \div 2
    /\ UNCHANGED <<ledgerVars, rsuVars, threadVars, tmrVars, gyVars, aodvVars>>

\* the steps of a call of AODVRouter.find_route
NextAodvRoute ==
    \/ \E trip \in AodvTrips, vehicles \in ListsUpTo(AodvSnapshots, MaxSnapshots) :
          AodvCall(trip, vehicles, <<>>)
    \/ AodvVisit
    \/ AodvSelect

\* a call of find_route that has started runs on
FairSpecAODV ==
    /\ Init
    /\ [][NextAodvRoute]_vars
    /\ WF_vars(AodvVisit)
    /\ WF_vars(AodvSelect)

\* the router and its maintenance hook, as the clock advances
NextAodvCleanup ==
    \/ NextAodvRoute
    \/ AodvCleanup
    \/ Elapse

SpecAodvCleanup == Init /\ [][NextAodvCleanup]_vars

\* simulation.py lines 56-60 holds one router of each strategy; a caller
\* drives one of the three
NextRouting ==
    \/ /\ gy_call = NoCall
       /\ aodv_call = NoCall
       /\ NextTMR
    \/ /\ tmr_call = NoCall
       /\ aodv_call = NoCall
       /\ NextGyTAR
    \/ /\ tmr_call = NoCall
       /\ gy_call = NoCall
       /\ NextAodvRoute

SpecRouting == Init /\ [][NextRouting]_vars

\* the k-th trip of a caller that asks for one new route after another, each
\* between two points 50 m apart
FillTrip(k) == [source |-> Loc(k, 0), destination |-> Loc(k + 50, 0)]

\* find_route is called for the next new trip, with an empty neighbor map
TmrFillCall ==
    \E k \in 0..(TMR_CACHE_LIMIT + MaxOver - 1) :
        /\ k = Cardinality(DOMAIN tmr_route_cache)
        /\ TmrCall(FillTrip(k), <<>>, <<>>)

GyFillCall ==
    \E k \in 0..(GY_CACHE_LIMIT + MaxOver - 1) :
        /\ k = Cardinality(DOMAIN gy_route_cache)
        /\ GyCall(FillTrip(k), <<>>, <<>>)

\* TMRRouter.update_traffic is called between two calls of find_route
TmrUpdateTraffic ==
    /\ tmr_pc \in {"idle", "return_cached", "return_computed", "traffic_updated"}
    /\ tmr_route_cache' = tmr_update_traffic(tmr_route_cache)
    /\ tmr_pc' = "traffic_updated"
    /\ UNCHANGED <<tmr_call, tmr_current_pos, tmr_route>>
    /\ UNCHANGED <<now, ledgerVars, rsuVars, threadVars, gyVars, aodvVars>>

\* GyTARRouter.update_traffic is called between two calls of find_route
GyUpdateTraffic ==
    /\ gy_pc \in {"idle", "returned", "traffic_updated"}
    /\ gy_route_cache' = gy_update_traffic(gy_route_cache)
    /\ gy_pc' = "traffic_updated"
    /\ UNCHANGED <<gy_call, gy_current_pos, gy_route, gy_junction, gy_current, gy_path>>
    /\ UNCHANGED <<now, ledgerVars, rsuVars, threadVars, tmrVars, aodvVars>>

\* a caller fills the cache of one of the two routers, the traffic-update hook
\* firing at any time between two calls; the loops of find_route make no hop
\* over an empty neighbor map
GyUntouched == gy_pc = "idle" /\ gy_route_cache = <<>>

TmrUntouched == tmr_pc = "idle" /\ tmr_route_cache = <<>>

NextCacheFill ==
    \/ GyUntouched /\ TmrFillCall
    \/ GyUntouched /\ TmrReturn
    \/ GyUntouched /\ TmrUpdateTraffic
    \/ TmrUntouched /\ GyFillCall
    \/ TmrUntouched /\ GyReturn
    \/ TmrUntouched /\ GyUpdateTraffic

SpecCacheFill == Init /\ [][NextCacheFill]_vars

\* the routers run beside an RSU that receives the beacons of V_0: the calls
\* of find_route, each over a neighbor map of one snapshot at most, interleave
\* with the updates of the RSU
SharedBeacons ==
    { [location |-> Loc(0, 0), speed |-> 80],
      [location |-> Loc(1000, 0), speed |-> 80] }

NextRoutingShared ==
    \/ Tick
    \/ \E data \in SharedBeacons : UpdateVehicleData("RSU_0", "V_0", data)
    \/ /\ gy_call = NoCall
       /\ aodv_call = NoCall
       /\ \/ \E trip \in TmrTrips, vehicles \in ListsUpTo(TmrSnapshots, 1) :
                TmrCall(trip, vehicles, <<>>)
          \/ TmrHop
          \/ TmrReturn
    \/ /\ tmr_call = NoCall
       /\ aodv_call = NoCall
       /\ \/ \E trip \in GyTrips, vehicles \in ListsUpTo(GySnapshots, 1) :
                GyCall(trip, vehicles, <<>>)
          \/ GyNextJunction
          \/ GyPathHop
          \/ GyPathReturn
          \/ GyReturn
    \/ /\ tmr_call = NoCall
       /\ gy_call = NoCall
       /\ \/ \E trip \in AodvTrips, vehicles \in ListsUpTo(AodvSnapshots, 1) :
                AodvCall(trip, vehicles, <<>>)
          \/ AodvVisit
          \/ AodvSelect

SpecRoutingShared == Init /\ [][NextRoutingShared]_vars

\* the listener threads of the RSUs alone, each taking the beacons of the
\* vehicles in its range one message after the other
NextListen ==
    \/ Tick
    \/ \E p \in InRange : LUpdate(p[1], p[2], SpeederBeacon)
    \/ \E r \in RSUs : LAddMalicious(r)
    \/ \E r \in RSUs : ReadLatest(<<r, "listen">>)
    \/ \E r \in RSUs : AppendBlock(<<r, "listen">>)
    \/ \E r \in RSUs : LEvict(r)

SpecListen == Init /\ [][NextListen]_vars

\* floods over the maps of four vehicles, in every order of the dict: the
\* vehicle at (250, 0) is within range of the destination (250, -300), and the
\* vehicle at (500, 0) is two hops from the source over it and three hops over
\* the vehicles at (200, 200) and (400, 250)
FloodSnapshots ==
    { [location |-> Loc(250, 0), speed |-> 80],
      [location |-> Loc(500, 0), speed |-> 80],
      [location |-> Loc(200, 200), speed |-> 80],
      [location |-> Loc(400, 250), speed |-> 80] }

FloodTrips ==
    { [source |-> Loc(0, 0), destination |-> Loc(250, 0 - 300)],
      [source |-> Loc(0, 0), destination |-> Loc(1500, 0)] }

NextFlood ==
    \/ \E trip \in FloodTrips,
          vehicles \in ListsUpTo(FloodSnapshots, Cardinality(FloodSnapshots)) :
          AodvCall(trip, vehicles, <<>>)
    \/ AodvVisit
    \/ AodvSelect

SpecFlood == Init /\ [][NextFlood]_vars

\* a caller asks one of the two routers for routes over changing neighbor maps
\* and traffic summaries, the traffic-update hook firing between two calls
NextCacheHit ==
    \/ /\ GyUntouched
       /\ \/ NextTMR
          \/ TmrUpdateTraffic
    \/ /\ TmrUntouched
       /\ \/ NextGyTAR
          \/ GyUpdateTraffic

SpecCacheHit == Init /\ [][NextCacheHit]_vars

\* the two RSUs go on receiving the beacons of V_0, speeding or not, after
\* its marking
TickLate ==
    /\ now < MaxLate
    /\ now' = now + 1
    /\ UNCHANGED <<ledgerVars, rsuVars, threadVars, tmrVars, gyVars, aodvVars>>

LimitBeacons ==
    { [location |-> Loc(0, 0), speed |-> 80],
      [location |-> Loc(0, 0), speed |-> 160] }

NextLimit ==
    \/ TickLate
    \/ \E r \in RSUs, data \in LimitBeacons : UpdateVehicleData(r, "V_0", data)

SpecLimit == Init /\ [][NextLimit]_vars

\* the two RSUs: RSU_0 receives the report of V_0, which sees no accident, and
\* of V_1, which sees one, and keeps the snapshot of V_0 when RSU_1, which
\* receives V_0 speeding, marks it; the periodic rounds of RSU_0 followed are
\* those that run once a vehicle is marked
MarkedBeacons ==
    { <<"RSU_0", "V_0", [location |-> Loc(0, 0), speed |-> 80, sees_accident |-> FALSE]>>,
      <<"RSU_0", "V_1", [location |-> Loc(0, 0), speed |-> 80, sees_accident |-> TRUE]>>,
      <<"RSU_1", "V_0", [location |-> Loc(0, 0), speed |-> 160]>> }

NextMarked ==
    \/ Tick
    \/ \E m \in MarkedBeacons : UpdateVehicleData(m[1], m[2], m[3])
    \/ /\ malicious_vehicles # {}
       /\ PeriodicTasks("RSU_0")

SpecMarked == Init /\ [][NextMarked]_vars

\* the two threads of RSU_0, which receives the beacons of V_0, the periodic
\* thread followed through the iteration of its round
NextScan ==
    \/ Tick
    \/ LUpdate("RSU_0", "V_0", SpeederBeacon)
    \/ LAddMalicious("RSU_0")
    \/ PScan("RSU_0")
    \/ PScanEnd("RSU_0")
    \/ \E th \in {"RSU_0"} \X {"listen", "periodic"} : ReadLatest(th)
    \/ \E th \in {"RSU_0"} \X {"listen", "periodic"} : AppendBlock(th)
    \/ LEvict("RSU_0")

SpecScan == Init /\ [][NextScan]_vars

(* ------------------------------ the ledger ----------------------------- *)
\* the digest of a stored block's index, timestamp, payload as it is now and
\* previous_hash, the hash itself left out
ContentDigest(b, td) ==
    Digest([index |-> b.index, timestamp |-> b.timestamp,
            data |-> Serialize(b.data, td), previous_hash |-> b.previous_hash])

\* C1: after any sequence of appends on a fresh ledger, with no stored block
\* tampered with, is_chain_valid() returns True
C1_AppendsValidate == is_chain_valid(chain, traffic_data)

\* the step corrupts the payload of block k - 1 and nothing else
TamperedAt(k) ==
    /\ Len(chain') = Len(chain)
    /\ chain'[k].data # chain[k].data
    /\ \A i \in 1..Len(chain) : i # k => chain'[i] = chain[i]

\* C2: corrupting the payload of one stored block of a chain that validates makes
\* validation report a violation at exactly that block's index, the genesis block
\* (index 0) included
C2_TamperLocated ==
    [][\A k \in 1..Len(chain) :
          (TamperedAt(k) /\ is_chain_valid(chain, traffic_data))
             => FailingIteration(chain', traffic_data') = k - 1]_vars

\* C3: in every reachable state every stored block's hash is the digest of its
\* current index, timestamp, payload and previous_hash, also for an rsu_data
\* block after the RSU that recorded it updated its traffic_data
C3_HashIsDigest ==
    \A i \in 1..Len(chain) : chain[i].hash = ContentDigest(chain[i], traffic_data)

\* C4: with the RSU threads appending to the shared ledger concurrently, every
\* block's previous_hash is the hash of the block before it: no two blocks are
\* built on the same latest block
C4_ChainLinked ==
    \A i \in 2..Len(chain) : chain[i].previous_hash = chain[i - 1].hash

(* ----------------------------- the detector ---------------------------- *)
\* C5: the update that brings a tracked vehicle's suspicion counter at an RSU
\* to 3 appends exactly one block, a malicious-marking block for that vehicle,
\* removes the vehicle from connected_vehicles and does not store the update
C5_ThirdEventMarks ==
    [][\A r \in RSUs, v \in VehicleIds :
          (CountOf(suspicious_count[r], v) < 3 /\ CountOf(suspicious_count'[r], v) = 3)
             => /\ v \in DOMAIN connected_vehicles[r]
                /\ Len(chain') = Len(chain) + 1
                /\ SubSeq(chain', 1, Len(chain)) = chain
                /\ chain'[Len(chain')].data.type = "malicious_vehicle"
                /\ chain'[Len(chain')].data.vehicle_id = v
                /\ MarkingBlocks(chain', v) = MarkingBlocks(chain, v) + 1
                /\ v \in malicious_vehicles'
                /\ v \notin DOMAIN connected_vehicles'[r]]_vars

C5_Witness ==
    \E r \in RSUs, v \in VehicleIds :
        /\ CountOf(suspicious_count[r], v) = 3
        /\ MarkingBlocks(chain, v) = 1
        /\ v \notin DOMAIN connected_vehicles[r]

\* C6: a vehicle is in the malicious set, or has a marking block, only if the
\* suspicion counter of some RSU for it has reached 3; a vehicle with exactly
\* 2 suspicious events at an RSU is still in that RSU's connected_vehicles
C6_MarkedOnlyAtThree ==
    /\ \A v \in VehicleIds :
          (v \in malicious_vehicles \/ MarkingBlocks(chain, v) > 0)
             => \E r \in RSUs : CountOf(suspicious_count[r], v) >= 3
    /\ \A r \in RSUs, v \in VehicleIds :
          CountOf(suspicious_count[r], v) = 2 => v \in DOMAIN connected_vehicles[r]

C6_Witness ==
    \E r \in RSUs, v \in VehicleIds, w \in VehicleIds :
        /\ CountOf(suspicious_count[r], v) = 2
        /\ v \in DOMAIN connected_vehicles[r]
        /\ v \notin malicious_vehicles
        /\ w \in malicious_vehicles

\* C7: an update for a vehicle already in the malicious set changes nothing:
\* connected_vehicles, suspicious_count, the chain and the malicious set stay
\* as they are, at every RSU
C7_RejectedNoChange ==
    [][\A p \in InRange : \A data \in BeaconsOf(p[2]) :
          (p[2] \in malicious_vehicles /\ UpdateVehicleData(p[1], p[2], data))
             => UNCHANGED <<connected_vehicles, suspicious_count, chain,
                            malicious_vehicles>>]_vars

\* a marked vehicle of which another RSU still holds a snapshot, after time
\* has passed: the updates it sends there are rejected
C7_Witness ==
    \E r \in RSUs, v \in malicious_vehicles :
        /\ v \in DOMAIN connected_vehicles[r]
        /\ connected_vehicles[r][v].timestamp < now
        /\ CountOf(suspicious_count[r], v) = 2

\* C8: the malicious set only grows: no step removes a vehicle id from it
C8_MaliciousSetGrows == [][malicious_vehicles \subseteq malicious_vehicles']_vars

C8_Witness == malicious_vehicles = VehicleIds

(* ------------------------------ the routers ---------------------------- *)
\* C9: GyTARRouter.find_route terminates and returns a path for every source,
\* destination, neighbor map and traffic summary: a call that has entered its
\* loops returns
C9_GyTARTerminates == (gy_pc \in {"outer", "inner"}) ~> (gy_pc = "returned")

\* C10 as stated: every call of TMRRouter.find_route returns a path of at most
\* (number of snapshots of the call + 2) waypoints
C10_ReturnedPathBounded ==
    tmr_pc \in {"return_cached", "return_computed"}
        => Len(tmr_route) <= Len(tmr_call.vehicles) + 2

\* C10: TMRRouter.find_route terminates for every source, destination and
\* neighbor map, its loop left within 100 m of the destination or with no
\* forward-progress candidate, and a path computed by the loop (a cache miss)
\* has at most (number of snapshots + 2) waypoints
C10_TMRTerminates ==
    /\ (tmr_pc = "loop") ~> (tmr_pc = "return_computed")
    /\ [](tmr_pc = "loop" => Len(tmr_route) <= Len(tmr_call.vehicles) + 1)
    /\ [](tmr_pc = "return_computed" =>
             /\ Len(tmr_route) <= Len(tmr_call.vehicles) + 2
             /\ \/ Distance(tmr_current_pos, tmr_call.destination) <= 100
                \/ tmr_find_next_hop(tmr_current_pos, tmr_call.destination,
                                     tmr_call.vehicles, tmr_call.traffic) = None)

\* a computed path of the greatest length: every snapshot of the map is a hop
C10_Witness ==
    /\ tmr_pc = "return_computed"
    /\ Len(tmr_call.vehicles) = MaxSnapshots
    /\ Len(tmr_route) = Len(tmr_call.vehicles) + 2

(* ------------------------- flood discovery returns --------------------- *)
\* a call of the flood-discovery find_route has returned from its own flood
AodvFloodReturned == aodv_pc \in {"return_computed", "return_fallback"}

\* C11: every call of the flood-discovery find_route returns, and the call
\* whose flood completed no candidate route returns exactly the two-point path
\* <<source, destination>>
C11_AodvTerminates ==
    /\ [](AodvFloodReturned /\ aodv_discovered = <<>>
            => aodv_route = <<aodv_call.source, aodv_call.destination>>)
    /\ (aodv_pc = "discover") ~> AodvFloodReturned

\* a flood over a map of two vehicles completed no candidate
C11_Witness ==
    /\ aodv_pc = "return_fallback"
    /\ aodv_discovered = <<>>
    /\ Len(aodv_call.vehicles) = 2
    /\ aodv_visited # {location_to_key(aodv_call.source)}

(* --------------------------- returned paths ---------------------------- *)
\* the calls of find_route that have returned, each with its arguments and
\* the path it returned
ReturnedCalls ==
    {c \in {[call |-> tmr_call, route |-> tmr_route,
             returned |-> tmr_pc \in {"return_cached", "return_computed"}],
            [call |-> gy_call, route |-> gy_route,
             returned |-> gy_pc = "returned"],
            [call |-> aodv_call, route |-> aodv_route,
             returned |-> aodv_pc \in {"return_cached", "return_computed",
                                       "return_fallback"}]} : c.returned}

\* C12 as stated: in every path returned by find_route of any strategy, every
\* consecutive pair of waypoints but the last is at most MAX_V2V_RANGE apart
C12_HopsWithinRange ==
    \A c \in ReturnedCalls :
        \A i \in 1..(Len(c.route) - 2) :
            DistanceSq(c.route[i], c.route[i + 1]) <= MAX_V2V_RANGE * MAX_V2V_RANGE

\* C13: every path returned by find_route of any strategy, computed or served
\* from the cache, has two waypoints or more, starts at the source of the call
\* and ends at the destination of the call
C13_PathJoinsEndpoints ==
    \A c \in ReturnedCalls :
        /\ Len(c.route) >= 2
        /\ c.route[1] = c.call.source
        /\ c.route[Len(c.route)] = c.call.destination

\* a path of three waypoints or more is served from the cache, to a call
\* whose neighbor map is empty
C13_Witness ==
    /\ tmr_pc = "return_cached"
    /\ tmr_call.vehicles = <<>>
    /\ Len(tmr_route) >= 3
    /\ [call |-> tmr_call, route |-> tmr_route, returned |-> TRUE] \in ReturnedCalls

(* ----------------------- the best discovered route --------------------- *)
\* C14: when the flood completed one candidate or more, the score
\* 0.4 * (1 / hop_count) + 0.6 * stability of the route returned is no less
\* than the score of every candidate completed by the same flood
C14_ReturnedScoreGreatest ==
    aodv_pc = "return_computed" =>
        /\ \E i \in 1..Len(aodv_discovered) : aodv_discovered[i] = aodv_route
        /\ \A i \in 1..Len(aodv_discovered) :
              RatLeq(aodv_calculate_route_score(aodv_discovered[i], aodv_call.vehicles),
                     aodv_calculate_route_score(aodv_route, aodv_call.vehicles))

\* the flood completed two candidates and the one returned is not the first,
\* its score the greater
C14_Witness ==
    /\ aodv_pc = "return_computed"
    /\ Len(aodv_discovered) = 2
    /\ aodv_route = aodv_discovered[2]
    /\ ~RatLeq(aodv_calculate_route_score(aodv_route, aodv_call.vehicles),
               aodv_calculate_route_score(aodv_discovered[1], aodv_call.vehicles))

(* ------------------------------ idempotence ---------------------------- *)
\* C15 as stated: for each strategy, a call of find_route that follows a
\* returned call with the same source, destination, neighbor map and traffic
\* summary is served from the route cache, no computation started, and returns
\* the identical path
C15_SecondCallCached ==
    [][/\ /\ tmr_pc \in {"return_cached", "return_computed"}
          /\ tmr_call' = tmr_call
          => tmr_pc' = "return_cached" /\ tmr_route' = tmr_route
       /\ /\ gy_pc = "returned"
          /\ gy_call' = gy_call
          => gy_pc' = "returned" /\ gy_route' = gy_route
       /\ /\ aodv_pc \in {"return_cached", "return_computed", "return_fallback"}
          /\ aodv_call' = aodv_call
          => aodv_pc' = "return_cached" /\ aodv_route' = aodv_route]_vars

(* ------------------------- cache maintenance hooks --------------------- *)
\* C16: when the route cache of the junction-based router, and likewise of the
\* greedy router, holds more than 100 entries as update_traffic is called, it
\* is empty as the call returns
C16_FullCacheCleared ==
    [][/\ /\ gy_pc' = "traffic_updated"
          /\ Cardinality(DOMAIN gy_route_cache) > 100
          => gy_route_cache' = <<>>
       /\ /\ tmr_pc' = "traffic_updated"
          /\ Cardinality(DOMAIN tmr_route_cache) > 100
          => tmr_route_cache' = <<>>]_vars

\* update_traffic has returned with the cache empty, after the call of
\* find_route that stored the 101st entry or a later one
C16_Witness ==
    /\ gy_pc = "traffic_updated"
    /\ gy_route_cache = <<>>
    /\ gy_call.source.x >= 100
    /\ Len(gy_route) = 2

\* C17 as stated: after every call of update_traffic, of the greedy and of
\* the junction-based router, the route cache is empty whatever it held before
C17_EveryUpdateClears ==
    /\ tmr_pc = "traffic_updated" => tmr_route_cache = <<>>
    /\ gy_pc = "traffic_updated" => gy_route_cache = <<>>

\* C18 as stated: after every call of AODVRouter.cleanup_old_entries, whenever
\* the caller makes it, the route cache and the dedup buffer are both empty
C18_EveryCleanupClears ==
    aodv_pc = "cleaned" => aodv_route_cache = <<>> /\ aodv_rreq_buffer = {}

(* ------------------------- the malicious set cache --------------------- *)
\* C19 as stated: at all times, the intermediate states of a ledger operation
\* that a concurrent thread observes included, get_malicious_vehicles() is the
\* set of the vehicle ids of the malicious-marking blocks of the chain
C19_CacheAgreesWithScan == get_malicious_vehicles = MarkedIn(chain)

(* --------------------------- the kinematic check ----------------------- *)
\* V_0 is tracked at RSU_0, not marked, and time has passed since its stored
\* snapshot
KinematicCase ==
    /\ "V_0" \in DOMAIN connected_vehicles["RSU_0"]
    /\ "V_0" \notin malicious_vehicles
    /\ now - connected_vehicles["RSU_0"]["V_0"].timestamp > 0

\* displacement > previous_speed * 1000 / 3600 * elapsed * 1.2, which is
\* 3 * displacement > previous_speed * elapsed, both sides squared
ExceedsKinematicBound(location, prev_data, elapsed) ==
    9 * DistanceSq(location, prev_data.location)
        > (prev_data.speed * elapsed) * (prev_data.speed * elapsed)

\* C20: for a tracked vehicle with positive elapsed time the update is flagged
\* by the kinematic check exactly when its displacement from the stored
\* location exceeds previous_speed * 1000 / 3600 * elapsed * 1.2; at 80 km/h
\* and 1 s a displacement of 1000 m is flagged and one of 22 m is not, that
\* update not being suspicious; a flagged update raises the suspicion counter
\* by one and no other update raises it
C20_KinematicBound ==
    /\ [](KinematicCase =>
            LET conn == connected_vehicles["RSU_0"]
                prev_data == conn["V_0"]
                elapsed == now - prev_data.timestamp
            IN /\ \A data \in KinematicBeacons :
                     Flagged(conn, malicious_vehicles, "V_0", data, now)
                        <=> ExceedsKinematicBound(data.location, prev_data, elapsed)
               /\ (prev_data.location = Loc(0, 0) /\ prev_data.speed = 80 /\ elapsed = 1)
                     => /\ Flagged(conn, malicious_vehicles, "V_0",
                                   [location |-> Loc(1000, 0), speed |-> 80], now)
                        /\ ~IsSuspicious(conn, malicious_vehicles,
                                         [location |-> Loc(22, 0), speed |-> 80],
                                         prev_data, now))
    /\ [][(KinematicCase /\ now' = now /\ "V_0" \in DOMAIN connected_vehicles'["RSU_0"])
            => LET prev_data == connected_vehicles["RSU_0"]["V_0"]
                   count == CountOf(suspicious_count["RSU_0"], "V_0")
               IN IF ExceedsKinematicBound(connected_vehicles'["RSU_0"]["V_0"].location,
                                           prev_data, now - prev_data.timestamp)
                  THEN CountOf(suspicious_count'["RSU_0"], "V_0") = count + 1
                  ELSE CountOf(suspicious_count'["RSU_0"], "V_0") = count]_vars

\* one second after a first report at speed 80 the vehicle has reported from
\* (1000, 0) and has been flagged once
C20_Witness ==
    /\ now = 1
    /\ "V_0" \in DOMAIN connected_vehicles["RSU_0"]
    /\ connected_vehicles["RSU_0"]["V_0"].location = Loc(1000, 0)
    /\ connected_vehicles["RSU_0"]["V_0"].timestamp = 1
    /\ CountOf(suspicious_count["RSU_0"], "V_0") = 1

(* ------------------------- find_route is read-only --------------------- *)
\* some variable of a router changes in the step
RouterStep == tmrVars' # tmrVars \/ gyVars' # gyVars \/ aodvVars' # aodvVars

\* C21: a step of find_route, of any strategy, leaves the ledger and the
\* detector state of every RSU unchanged, leaves the neighbor map and the
\* traffic summary of the running call unchanged, and writes no other
\* strategy's route cache
C21_FindRouteReadOnly ==
    [][/\ RouterStep =>
             UNCHANGED <<chain, malicious_vehicles, connected_vehicles,
                         suspicious_count, traffic_data>>
       /\ tmr_pc = "loop" => tmr_call' = tmr_call
       /\ gy_pc \in {"outer", "inner"} => gy_call' = gy_call
       /\ aodv_pc = "discover" => aodv_call' = aodv_call
       /\ tmrVars' # tmrVars => UNCHANGED <<gy_route_cache, aodv_route_cache>>
       /\ gyVars' # gyVars => UNCHANGED <<tmr_route_cache, aodv_route_cache>>
       /\ aodvVars' # aodvVars => UNCHANGED <<tmr_route_cache, gy_route_cache>>]_vars

\* a route over a vehicle hop has been computed and cached while the RSU has
\* marked V_0 and tracks nothing
C21_Witness ==
    /\ tmr_pc = "return_computed"
    /\ Len(tmr_route) = 3
    /\ tmr_route_cache # <<>>
    /\ Len(tmr_call.vehicles) = 1
    /\ malicious_vehicles = {"V_0"}
    /\ Len(chain) = 2

(* ----------------------- one update at a time per RSU ------------------ *)
\* C22: while the listener of an RSU is in the middle of one inbound update,
\* no other update of that RSU acts: no suspicion counter of the RSU changes,
\* its tracking table changes by the eviction of the vehicle in hand only, and
\* the vehicle in hand stays the same until the update is done
C22_UpdatesSerialized ==
    [][\A r \in RSUs :
          LET th == <<r, "listen">>
          IN pc[th] # "idle" =>
                /\ suspicious_count'[r] = suspicious_count[r]
                /\ connected_vehicles'[r] \in
                      {connected_vehicles[r],
                       DictDel(connected_vehicles[r], frame[th].vehicle_id)}
                /\ pc'[th] # "idle" => frame'[th].vehicle_id = frame[th].vehicle_id]_vars

\* the listener of RSU_0 is committing the marking block of V_1, the update
\* that marked V_0 done, while the listener of RSU_1 has counted an event
C22_Witness ==
    /\ pc[<<"RSU_0", "listen">>] = "append"
    /\ frame[<<"RSU_0", "listen">>].vehicle_id = "V_1"
    /\ "V_0" \in MarkedIn(chain)
    /\ CountOf(suspicious_count["RSU_1"], "V_0") >= 1

(* ------------------------- the suspicion counters ---------------------- *)
\* what an update of vehicle_id at RSU r with data adds to the counter of the
\* vehicle: one when the vehicle is not marked, is tracked, time has passed
\* and a check or more fails, else nothing
CounterStep(r, vehicle_id, data) ==
    LET conn == connected_vehicles[r]
    IN IF /\ vehicle_id \notin malicious_vehicles
          /\ vehicle_id \in DOMAIN conn
          /\ now - conn[vehicle_id].timestamp > 0
          /\ FailingChecks(conn, malicious_vehicles, data, conn[vehicle_id], now) # {}
       THEN 1 ELSE 0

\* C23: an inbound update changes the suspicion counter of its vehicle at its
\* RSU by one when a check or more fails, however many fail, and by nothing
\* otherwise, and changes no other counter; no step of any operation lowers or
\* resets a counter
C23_CounterCountsUpdates ==
    [][/\ \A vehicle_id \in VehicleIds, data \in CounterBeacons :
             UpdateVehicleData("RSU_0", vehicle_id, data) =>
                \A r \in RSUs, v \in VehicleIds :
                   CountOf(suspicious_count'[r], v) =
                      CountOf(suspicious_count[r], v)
                         + (IF r = "RSU_0" /\ v = vehicle_id
                            THEN CounterStep(r, vehicle_id, data) ELSE 0)
       /\ \A r \in RSUs, v \in VehicleIds :
             CountOf(suspicious_count'[r], v) >= CountOf(suspicious_count[r], v)]_vars

\* the update of V_0 that failed two checks, speed and bounds, has been counted
\* once, and the counter of V_1, marked since, still stands at 3
C23_Witness ==
    /\ CountOf(suspicious_count["RSU_0"], "V_0") = 1
    /\ "V_0" \in DOMAIN connected_vehicles["RSU_0"]
    /\ connected_vehicles["RSU_0"]["V_0"].location = Loc(0 - 50, 0)
    /\ connected_vehicles["RSU_0"]["V_0"].speed = 160
    /\ connected_vehicles["RSU_0"]["V_0"].timestamp = MaxTime
    /\ "V_1" \in malicious_vehicles
    /\ CountOf(suspicious_count["RSU_0"], "V_1") = 3

(* --------------------------- the peer consensus ------------------------ *)
\* an update of vehicle_id at RSU r with data is evaluated, carries
\* sees_accident and fails none of the checks of speed, movement and bounds
ConsensusOnly(r, vehicle_id, data) ==
    LET conn == connected_vehicles[r]
    IN /\ UpdateVehicleData(r, vehicle_id, data)
       /\ "sees_accident" \in DOMAIN data
       /\ vehicle_id \notin malicious_vehicles
       /\ vehicle_id \in DOMAIN conn
       /\ now - conn[vehicle_id].timestamp > 0
       /\ FailingChecks(conn, malicious_vehicles, data, conn[vehicle_id], now)
             \subseteq {"consensus"}

\* C24 as stated: an update carrying sees_accident for which at most one
\* report of the last 2 seconds is found among the nearby tracked vehicles is
\* not flagged by the peer-consensus check, whatever its flag
C24_OneReportSkipped ==
    [][\A p \in InRange : \A data \in BeaconsOf(p[2]) :
          (/\ ConsensusOnly(p[1], p[2], data)
           /\ Cardinality(NearbyReporters(connected_vehicles[p[1]], malicious_vehicles,
                                          data, now)) <= 1)
             => CountOf(suspicious_count'[p[1]], p[2])
                   = CountOf(suspicious_count[p[1]], p[2])]_vars

\* C25 as stated: the stored snapshot of the reporting vehicle is not counted
\* among the peer reports, so an update of a vehicle with no other tracked
\* vehicle within 300 m is not flagged by the peer-consensus check
C25_OwnReportNotCounted ==
    [][\A p \in InRange : \A data \in BeaconsOf(p[2]) :
          (/\ ConsensusOnly(p[1], p[2], data)
           /\ get_nearby_vehicles(connected_vehicles[p[1]], malicious_vehicles,
                                  data.location) \subseteq {p[2]})
             => CountOf(suspicious_count'[p[1]], p[2])
                   = CountOf(suspicious_count[p[1]], p[2])]_vars

(* ----------------------- the speed and fence checks -------------------- *)
\* an update of V_0 at RSU_0 with data is evaluated: the vehicle is tracked,
\* not marked, and time has passed since its stored snapshot
Evaluated(data) ==
    /\ UpdateVehicleData("RSU_0", "V_0", data)
    /\ "V_0" \notin malicious_vehicles
    /\ "V_0" \in DOMAIN connected_vehicles["RSU_0"]
    /\ now - connected_vehicles["RSU_0"]["V_0"].timestamp > 0

\* the step counts one more suspicious event of V_0 at RSU_0
Counted ==
    CountOf(suspicious_count'["RSU_0"], "V_0") = CountOf(suspicious_count["RSU_0"], "V_0") + 1

\* the step leaves the counter of V_0 at RSU_0 as it is
NotCounted ==
    CountOf(suspicious_count'["RSU_0"], "V_0") = CountOf(suspicious_count["RSU_0"], "V_0")

BeyondFence(location) ==
    \/ location.x < 0 - 10
    \/ location.x > NETWORK_LENGTH + 10
    \/ location.y < 0 - 10
    \/ location.y > NETWORK_WIDTH + 10

C28_FirstSeenStored ==
    [][\A p \in InRange : \A data \in BeaconsOf(p[2]) :
          (/\ p[2] \notin DOMAIN connected_vehicles[p[1]]
           /\ p[2] \notin malicious_vehicles
           /\ UpdateVehicleData(p[1], p[2], data))
             => /\ p[2] \in DOMAIN connected_vehicles'[p[1]]
                /\ connected_vehicles'[p[1]][p[2]] = [timestamp |-> now] @@ data
                /\ UNCHANGED <<suspicious_count, chain, malicious_vehicles>>]_vars

\* RSU_1 has stored the first update it saw of V_0, sent after time had passed
\* from outside the fence, and has counted nothing, while RSU_0 has counted V_0
C28_Witness ==
    /\ "V_0" \in DOMAIN connected_vehicles["RSU_1"]
    /\ connected_vehicles["RSU_1"]["V_0"].location = Loc(0 - 50, 0)
    /\ connected_vehicles["RSU_1"]["V_0"].timestamp = 2
    /\ CountOf(suspicious_count["RSU_1"], "V_0") = 0
    /\ CountOf(suspicious_count["RSU_0"], "V_0") = 2
    /\ Len(chain) = 1

(* ---------------------- the lookup of flood discovery ------------------ *)
\* some snapshot of the map lies within MAX_V2V_RANGE of both waypoints of
\* every consecutive pair of the route
Relayed(route, vehicles) ==
    \A i \in 1..(Len(route) - 1) :
        \E k \in 1..Len(vehicles) :
            /\ DistanceSq(route[i], vehicles[k].location) <= MAX_V2V_RANGE * MAX_V2V_RANGE
            /\ DistanceSq(route[i + 1], vehicles[k].location)
                  <= MAX_V2V_RANGE * MAX_V2V_RANGE

\* C29: a call of the flood-discovery find_route that finds a cached path
\* returns it unchanged, the cache as it was, if and only if every consecutive
\* pair of the path has a snapshot of the current map within range of both
\* waypoints; otherwise the entry leaves the cache and a discovery starts from
\* the source over the current map
C29_LookupValidates ==
    [][\A trip \in AodvTrips, vehicles \in ListsUpTo(AodvSnapshots, MaxSnapshots) :
          (/\ route_key(trip.source, trip.destination) \in DOMAIN aodv_route_cache
           /\ AodvCall(trip, vehicles, <<>>))
             => LET key == route_key(trip.source, trip.destination)
                IN IF Relayed(aodv_route_cache[key], vehicles)
                   THEN /\ aodv_pc' = "return_cached"
                        /\ aodv_route' = aodv_route_cache[key]
                        /\ aodv_route_cache' = aodv_route_cache
                   ELSE /\ key \notin DOMAIN aodv_route_cache'
                        /\ aodv_pc' = "discover"
                        /\ aodv_call'.vehicles = vehicles
                        /\ aodv_discovered' = <<>>
                        /\ aodv_queue' =
                              <<[current |-> trip.source, path |-> <<trip.source>>]>>]_vars

\* the path over the vehicle at (300, 0) is returned from the cache to a call
\* whose map holds only the vehicle at (200, 0), in range of every waypoint
C29_Witness ==
    /\ aodv_pc = "return_cached"
    /\ aodv_route = <<Loc(0, 0), Loc(300, 0), Loc(400, 0)>>
    /\ aodv_call.vehicles = <<[location |-> Loc(200, 0), speed |-> 100]>>

(* ------------------------ the visited set of a flood ------------------- *)
\* the locations that n hops or fewer reach from the source over the map,
\* a hop joining two locations within MAX_V2V_RANGE, over every such hop
\* (all_edges) or over the hops that leave a location out of range of the
\* destination only
RECURSIVE ReachWithin(_, _, _, _, _)
ReachWithin(n, source, destination, vehicles, all_edges) ==
    IF n = 0 THEN {source}
    ELSE UNION
            {reached \cup
                {vehicles[k].location : k \in
                    {j \in 1..Len(vehicles) :
                        \E c \in reached :
                            /\ DistanceSq(c, vehicles[j].location)
                                  <= MAX_V2V_RANGE * MAX_V2V_RANGE
                            /\ \/ all_edges
                               \/ DistanceSq(c, destination)
                                     > MAX_V2V_RANGE * MAX_V2V_RANGE}}
             : reached \in {ReachWithin(n - 1, source, destination, vehicles, all_edges)}}

\* the least number of hops that reach the location, which some number of hops
\* reaches
MinHops(location, source, destination, vehicles, all_edges) ==
    CHOOSE n \in 0..Len(vehicles) :
        /\ location \in ReachWithin(n, source, destination, vehicles, all_edges)
        /\ \A m \in 0..(n - 1) :
              location \notin ReachWithin(m, source, destination, vehicles, all_edges)

\* the locations that the flood has taken from its queue
Dequeued ==
    {key \in aodv_visited :
        \A i \in 1..Len(aodv_queue) : location_to_key(aodv_queue[i].current) # key}

\* during a flood each location is in the queue once at most and is visited,
\* the path of a queue entry starts at the source and ends at its location,
\* and the flood has dequeued at most (number of snapshots + 1) locations
VisitedOnce ==
    aodv_pc = "discover" =>
        /\ \A i, j \in 1..Len(aodv_queue) :
              aodv_queue[i].current = aodv_queue[j].current => i = j
        /\ \A i \in 1..Len(aodv_queue) :
              /\ location_to_key(aodv_queue[i].current) \in aodv_visited
              /\ aodv_queue[i].path[1] = aodv_call.source
              /\ aodv_queue[i].path[Len(aodv_queue[i].path)] = aodv_queue[i].current
        /\ Cardinality(aodv_visited) <= Len(aodv_call.vehicles) + 1
        /\ Cardinality(Dequeued) <= Len(aodv_call.vehicles) + 1

\* the path of every queue entry has the least number of hops to its location
ShortestBranches(all_edges) ==
    aodv_pc = "discover" =>
        \A i \in 1..Len(aodv_queue) :
            Len(aodv_queue[i].path) - 1 =
                MinHops(aodv_queue[i].current, aodv_call.source, aodv_call.destination,
                        aodv_call.vehicles, all_edges)

\* C30 as stated: each location is visited and enqueued once at most, the
\* branch that reached it is a path with the minimum hop count from the
\* source over within-range edges, and at most (number of snapshots + 1) nodes
\* are dequeued
C30_BranchesShortest == VisitedOnce /\ ShortestBranches(TRUE)

\* C30: each location is visited and enqueued once at most, the branch that
\* reached it has the minimum hop count from the source over the within-range
\* edges that leave a location out of range of the destination, the only
\* locations the flood expands, and at most (number of snapshots + 1) nodes
\* are dequeued
C30_BranchesShortestExpanded == VisitedOnce /\ ShortestBranches(FALSE)

\* the vehicle at (500, 0) is in the queue with a path of three hops, the
\* vehicle at (250, 0) dequeued within range of the destination
C30_Witness ==
    /\ aodv_pc = "discover"
    /\ aodv_queue # <<>>
    /\ Head(aodv_queue).current = Loc(500, 0)
    /\ Len(Head(aodv_queue).path) = 4
    /\ location_to_key(Loc(250, 0)) \in Dequeued
    /\ Len(aodv_discovered) = 1

(* ------------------------ greedy hops approach ------------------------- *)
\* the hop locations of the path of the greedy strategy: every waypoint while
\* the loop runs, every waypoint but the appended destination once returned
TmrHops ==
    IF tmr_pc = "loop" THEN tmr_route
    ELSE SubSeq(tmr_route, 1, Len(tmr_route) - 1)

\* C31: every hop the greedy strategy accepts is strictly nearer to the
\* destination than the position it was chosen from, so the hop locations of
\* a path, computed or returned, come strictly nearer to the destination one
\* after the other and none appears twice
C31_HopsApproach ==
    /\ [][TmrHop => DistanceSq(tmr_current_pos', tmr_call.destination)
                       < DistanceSq(tmr_current_pos, tmr_call.destination)]_vars
    /\ [](tmr_pc \in {"loop", "return_cached", "return_computed"} =>
             \A i, j \in 1..Len(TmrHops) :
                 i < j => /\ DistanceSq(TmrHops[j], tmr_call.destination)
                               < DistanceSq(TmrHops[i], tmr_call.destination)
                          /\ TmrHops[i] # TmrHops[j])

\* a path of two hops returned: from (0, 0) over (300, 0) and (301, 0)
C31_Witness ==
    /\ tmr_pc = "return_computed"
    /\ tmr_route = <<Loc(0, 0), Loc(300, 0), Loc(301, 0), Loc(1000, 0)>>

(* ---------------------- junctions of the 500 m grid -------------------- *)
\* a point of the grid of range(0, NETWORK_LENGTH, 500) x range(0, NETWORK_WIDTH, 500)
GridPoint(point) ==
    /\ point.x % GRID_SIZE = 0 /\ 0 <= point.x /\ point.x < NETWORK_LENGTH
    /\ point.y % GRID_SIZE = 0 /\ 0 <= point.y /\ point.y < NETWORK_WIDTH

\* no point of the grid is within MAX_V2V_RANGE of the position
NoJunctionInRange(position) ==
    \A i \in 0..((NETWORK_LENGTH - 1) \div GRID_SIZE),
       j \in 0..((NETWORK_WIDTH - 1) \div GRID_SIZE) :
        DistanceSq(position, Loc(i * GRID_SIZE, j * GRID_SIZE))
            > MAX_V2V_RANGE * MAX_V2V_RANGE

\* C32: every junction the junction-based strategy selects is a point of the
\* 500 m grid within MAX_V2V_RANGE of the current position, and with no grid
\* point in range of the current position the loop stops at once, the route
\* returned being the waypoints so far followed by the destination
C32_JunctionsOfGrid ==
    /\ [][GyNextJunction =>
             /\ GridPoint(gy_junction')
             /\ DistanceSq(gy_current_pos, gy_junction')
                   <= MAX_V2V_RANGE * MAX_V2V_RANGE]_vars
    /\ [][(gy_pc = "outer" /\ NoJunctionInRange(gy_current_pos)) =>
             /\ gy_pc' = "returned"
             /\ gy_route' = Append(gy_route, gy_call.destination)
             /\ gy_route_cache'[route_key(gy_call.source, gy_call.destination)]
                   = gy_route']_vars

\* the call from (2900, 0), 400 m from the nearest junction, has returned the
\* source followed by the destination
C32_Witness ==
    /\ gy_pc = "returned"
    /\ gy_call.source = Loc(2900, 0)
    /\ NoJunctionInRange(gy_call.source)
    /\ gy_route = <<Loc(2900, 0), Loc(1500, 0)>>

(* ---------------------- cached entries are not validated --------------- *)
\* every entry of the cache is kept as it is by the step, unless the step is
\* an update_traffic that clears the whole cache
EntriesKept(route_cache, route_cache_after, pc_after) ==
    \/ \A key \in DOMAIN route_cache :
          /\ key \in DOMAIN route_cache_after
          /\ route_cache_after[key] = route_cache[key]
    \/ /\ pc_after = "traffic_updated"
       /\ route_cache_after = <<>>

\* C33: the greedy and the junction-based strategy return the path stored for
\* the key of the call, whatever the neighbor map and the traffic summary of
\* the call, and a stored path stays as it is until update_traffic clears the
\* cache
C33_StoredPathReturned ==
    /\ [][(/\ tmr_pc # "loop"
           /\ tmr_pc' \in {"loop", "return_cached"}
           /\ route_key(tmr_call'.source, tmr_call'.destination)
                 \in DOMAIN tmr_route_cache)
             => /\ tmr_pc' = "return_cached"
                /\ tmr_route' = tmr_route_cache[route_key(tmr_call'.source,
                                                          tmr_call'.destination)]]_vars
    /\ [][(/\ gy_pc \notin {"outer", "inner"}
           /\ gy_pc' \in {"outer", "returned"}
           /\ route_key(gy_call'.source, gy_call'.destination)
                 \in DOMAIN gy_route_cache)
             => /\ gy_pc' = "returned"
                /\ gy_route' = gy_route_cache[route_key(gy_call'.source,
                                                        gy_call'.destination)]]_vars
    /\ [][/\ EntriesKept(tmr_route_cache, tmr_route_cache', tmr_pc')
          /\ EntriesKept(gy_route_cache, gy_route_cache', gy_pc')]_vars

\* the path over (300, 0) and (301, 0), stored by an earlier call, is returned
\* to a call with an empty neighbor map
C33_Witness ==
    /\ tmr_pc = "return_cached"
    /\ tmr_call.vehicles = <<>>
    /\ route_key(tmr_call.source, tmr_call.destination) \in DOMAIN tmr_route_cache
    /\ tmr_route = <<Loc(0, 0), Loc(300, 0), Loc(301, 0), Loc(1000, 0)>>

(* --------------------------- the size of the cache --------------------- *)
\* C34 as stated: when a call of find_route of the greedy or of the
\* junction-based router returns, the route cache holds 100 entries at most
C34_CacheAtMostLimit ==
    /\ tmr_pc \in {"return_cached", "return_computed"}
          => Cardinality(DOMAIN tmr_route_cache) <= 100
    /\ gy_pc = "returned" => Cardinality(DOMAIN gy_route_cache) <= 100

(* ----------------------- the ledger is append-only --------------------- *)
\* one of the three recording operations of the ledger is called
LedgerCall ==
    \/ \E vehicle_id \in VehicleIds :
          RecordVehicleData(vehicle_id,
                            [location |-> Loc(0, 0), speed |-> 80, direction |-> 0])
    \/ \E r \in RSUs, connected \in {{}, VehicleIds} : RecordRsuData(r, connected)
    \/ \E vehicle_id \in VehicleIds : AddMaliciousVehicle(vehicle_id)

\* C35: with the ledger operations run one at a time, each of
\* record_vehicle_data, record_rsu_data and add_malicious_vehicle appends
\* exactly one block, of the index of the last block plus one, and removes or
\* reorders no block; the chain starts with the genesis block (index 0,
\* previous_hash "0") and block i has index i
C35_AppendOnly ==
    /\ [][LedgerCall =>
             /\ Len(chain') = Len(chain) + 1
             /\ SubSeq(chain', 1, Len(chain)) = chain
             /\ chain'[Len(chain')].index = chain[Len(chain)].index + 1]_vars
    /\ [][SubSeq(chain', 1, Len(chain)) = chain]_vars
    /\ [](/\ chain[1].index = 0
          /\ chain[1].previous_hash = RootHash
          /\ chain[1].data = [message |-> "Genesis Block"]
          /\ \A i \in 1..Len(chain) : chain[i].index = i - 1)

\* a marking block and an RSU record follow the genesis block
C35_Witness ==
    /\ Len(chain) = 3
    /\ chain[2].data.type = "malicious_vehicle"
    /\ chain[3].data.type = "rsu_data"
    /\ chain[3].index = 2

(* ------------------- one marking block for each vehicle ---------------- *)
\* C36 as stated: with the RSUs sharing the ledger and receiving the updates
\* of one vehicle concurrently, the ledger holds one malicious-marking block at
\* most for each vehicle id
C36_OneMarkingBlock ==
    \A vehicle_id \in VehicleIds : MarkingBlocks(chain, vehicle_id) <= 1

(* ------------------------ the counter stops at 3 ----------------------- *)
\* C37: the suspicion counter of every RSU for every vehicle is between 0 and
\* 3; a vehicle whose counter is 3 at some RSU is marked malicious, and no
\* update changes a counter of a marked vehicle
C37_CounterAtMostLimit ==
    /\ [](\A r \in RSUs, vehicle_id \in VehicleIds :
             /\ CountOf(suspicious_count[r], vehicle_id) \in 0..3
             /\ CountOf(suspicious_count[r], vehicle_id) = 3
                   => vehicle_id \in malicious_vehicles)
    /\ [][\A r \in RSUs, vehicle_id \in malicious_vehicles :
             CountOf(suspicious_count'[r], vehicle_id)
                = CountOf(suspicious_count[r], vehicle_id)]_vars

\* V_0 was marked at an RSU whose counter is 3, was first seen again there and
\* the clock has gone on since
C37_Witness ==
    /\ CountOf(suspicious_count["RSU_0"], "V_0") = 3
    /\ "V_0" \in malicious_vehicles
    /\ now = MaxLate

(* ------------------ marked vehicles are left out of account ------------ *)
\* the stored snapshots of an RSU without those of the marked vehicles
Unmarked(conn) == [vid \in DOMAIN conn \ malicious_vehicles |-> conn[vid]]

\* RSU r has appended the record of a periodic round
RoundOf(r) ==
    /\ Len(chain') = Len(chain) + 1
    /\ chain'[Len(chain')].data.type = "rsu_data"
    /\ chain'[Len(chain')].data.rsu_id = r

\* C38: a vehicle in the malicious set adds nothing to the peer-consensus
\* majority of an RSU that evaluates an update, nor to the vehicle_count,
\* average_speed and congestion_level of an RSU that refreshes its statistics:
\* both come out as they would were its stored snapshot not there
C38_MarkedLeftOut ==
    /\ [][\A r \in RSUs :
             RoundOf(r) =>
                traffic_data'[r] =
                   update_traffic_data(Unmarked(connected_vehicles[r]), {},
                                       traffic_data[r], now)]_vars
    /\ [][\A m \in MarkedBeacons :
             (/\ m[2] \notin malicious_vehicles
              /\ m[2] \in DOMAIN connected_vehicles[m[1]]
              /\ now > connected_vehicles[m[1]][m[2]].timestamp
              /\ UpdateVehicleData(m[1], m[2], m[3]))
                => (CountOf(suspicious_count'[m[1]], m[2])
                       = CountOf(suspicious_count[m[1]], m[2]) + 1
                    <=> IsSuspicious(Unmarked(connected_vehicles[m[1]]), {}, m[3],
                                     connected_vehicles[m[1]][m[2]], now))]_vars

\* RSU_0 holds the fresh report of V_0, which RSU_1 marked, beside the report
\* of V_1 it has just stored, and its statistics count one vehicle
C38_Witness ==
    /\ "V_0" \in malicious_vehicles
    /\ CountOf(suspicious_count["RSU_0"], "V_0") < 3
    /\ DOMAIN connected_vehicles["RSU_0"] = {"V_0", "V_1"}
    /\ "sees_accident" \in DOMAIN connected_vehicles["RSU_0"]["V_0"]
    /\ connected_vehicles["RSU_0"]["V_0"].timestamp > now - 2
    /\ "sees_accident" \in DOMAIN connected_vehicles["RSU_0"]["V_1"]
    /\ connected_vehicles["RSU_0"]["V_1"].timestamp = now
    /\ traffic_data["RSU_0"].vehicle_count = 1
    /\ chain[Len(chain)].data.type = "rsu_data"
    /\ chain[Len(chain)].timestamp = now

(* --------------------- the two threads of one RSU ---------------------- *)
\* C39 as stated: while the periodic thread of an RSU iterates
\* connected_vehicles, the listener thread of the RSU inserts nothing into it
\* and deletes nothing from it
C39_NoSharedAccess ==
    [][\A r \in RSUs :
          pc[<<r, "periodic">>] = "scan"
             => connected_vehicles'[r] = connected_vehicles[r]]_vars

====
